---- MODULE Spec2Model ----
(***************************************************************************)
(* A model of the nessy NES emulator.                                      *)
(*                                                                         *)
(* Two machines share this module.                                         *)
(*   - The cycle-stepped 6502 of src/cpu.rs, driven through its CpuBus     *)
(*     trait by an environment that serves each bus transaction            *)
(*     (variables cpu, bus, cpu_panic, env, obs).                          *)
(*   - The console of src/nesbus.rs: APU with its DMA unit, PPU, mapper,   *)
(*     controllers, RAM and VRAM, driven through the Bus trait by a        *)
(*     processor that follows the trait's read/write protocol              *)
(*     (variables nes, drv).                                               *)
(***************************************************************************)
EXTENDS Integers, Sequences, FiniteSets, TLC

VARIABLES cpu, bus, cpu_panic, env, obs, nes, drv

vars == <<cpu, bus, cpu_panic, env, obs, nes, drv>>

cpuVars == <<cpu, bus, cpu_panic, env, obs>>

nesVars == <<nes, drv>>

----------------------------------------------------------------------------
(* Fixed-width integer helpers.                                            *)

RECURSIVE Pow2(_)
Pow2(n) == IF n = 0 THEN 1 ELSE 2 * Pow2(n - 1)

Bit(v, k) == (v \div Pow2(k)) % 2

TestBit(v, k) == Bit(v, k) = 1

RECURSIVE AndN(_, _, _)
AndN(a, b, n) ==
    IF n = 0 THEN 0
    ELSE (IF a % 2 = 1 /\ b % 2 = 1 THEN 1 ELSE 0) + 2 * AndN(a \div 2, b \div 2, n - 1)

RECURSIVE OrN(_, _, _)
OrN(a, b, n) ==
    IF n = 0 THEN 0
    ELSE (IF a % 2 = 1 \/ b % 2 = 1 THEN 1 ELSE 0) + 2 * OrN(a \div 2, b \div 2, n - 1)

RECURSIVE XorN(_, _, _)
XorN(a, b, n) ==
    IF n = 0 THEN 0
    ELSE (IF a % 2 # b % 2 THEN 1 ELSE 0) + 2 * XorN(a \div 2, b \div 2, n - 1)

And8(a, b) == AndN(a, b, 8)

Or8(a, b) == OrN(a, b, 8)

Xor8(a, b) == XorN(a, b, 8)

And16(a, b) == AndN(a, b, 16)

Or16(a, b) == OrN(a, b, 16)

B2N(b) == IF b THEN 1 ELSE 0

SetBitTo(v, k, b) == v - Bit(v, k) * Pow2(k) + B2N(b) * Pow2(k)

Lo(w) == w % 256

Hi(w) == (w \div 256) % 256

MkWord(lo, hi) == lo + 256 * hi

sign_cast(b) == IF b > 127 THEN b - 256 ELSE b

----------------------------------------------------------------------------
(* Instruction decoding, src/cpu/instruction.rs.                           *)

decode_op(a, b, c) ==
    CASE c = 0 ->
           (CASE a = 0 -> (CASE b = 0 -> "BRK" [] b = 2 -> "PHP" [] b = 4 -> "BPL"
                             [] b = 6 -> "CLC" [] OTHER -> "NOP")
              [] a = 1 -> (CASE b = 0 -> "JSR" [] b = 1 -> "BIT" [] b = 2 -> "PLP"
                             [] b = 3 -> "BIT" [] b = 4 -> "BMI" [] b = 5 -> "NOP"
                             [] b = 6 -> "SEC" [] b = 7 -> "NOP" [] OTHER -> "unreachable")
              [] a = 2 -> (CASE b = 0 -> "RTI" [] b = 1 -> "NOP" [] b = 2 -> "PHA"
                             [] b = 3 -> "JMP" [] b = 4 -> "BVC" [] b = 5 -> "NOP"
                             [] b = 6 -> "CLI" [] b = 7 -> "NOP" [] OTHER -> "unreachable")
              [] a = 3 -> (CASE b = 0 -> "RTS" [] b = 1 -> "NOP" [] b = 2 -> "PLA"
                             [] b = 3 -> "JMP" [] b = 4 -> "BVS" [] b = 5 -> "NOP"
                             [] b = 6 -> "SEI" [] b = 7 -> "NOP" [] OTHER -> "unreachable")
              [] a = 4 -> (CASE b = 0 -> "NOP" [] b = 1 -> "STY" [] b = 2 -> "DEY"
                             [] b = 3 -> "STY" [] b = 4 -> "BCC" [] b = 5 -> "STY"
                             [] b = 6 -> "TYA" [] b = 7 -> "SHY" [] OTHER -> "unreachable")
              [] a = 5 -> (CASE b = 0 -> "LDY" [] b = 1 -> "LDY" [] b = 2 -> "TAY"
                             [] b = 3 -> "LDY" [] b = 4 -> "BCS" [] b = 5 -> "LDY"
                             [] b = 6 -> "CLV" [] b = 7 -> "LDY" [] OTHER -> "unreachable")
              [] a = 6 -> (CASE b = 0 -> "CPY" [] b = 1 -> "CPY" [] b = 2 -> "INY"
                             [] b = 3 -> "CPY" [] b = 4 -> "BNE" [] b = 5 -> "NOP"
                             [] b = 6 -> "CLD" [] b = 7 -> "NOP" [] OTHER -> "unreachable")
              [] a = 7 -> (CASE b = 0 -> "CPX" [] b = 1 -> "CPX" [] b = 2 -> "INX"
                             [] b = 3 -> "CPX" [] b = 4 -> "BEQ" [] b = 5 -> "NOP"
                             [] b = 6 -> "SED" [] b = 7 -> "NOP" [] OTHER -> "unreachable")
              [] OTHER -> "unreachable")
      [] c = 1 ->
           (CASE a = 0 -> "ORA" [] a = 1 -> "AND" [] a = 2 -> "EOR" [] a = 3 -> "ADC"
              [] a = 4 -> (IF b = 2 THEN "NOP" ELSE "STA")
              [] a = 5 -> "LDA" [] a = 6 -> "CMP" [] a = 7 -> "SBC"
              [] OTHER -> "unreachable")
      [] c = 2 ->
           (CASE b = 4 -> "JAM"
              [] a \in 0..3 /\ b = 0 -> "JAM"
              [] a \in 0..3 /\ b = 6 -> "NOP"
              [] a = 0 /\ b \notin {0, 4, 6} -> "ASL"
              [] a = 1 /\ b \notin {0, 4, 6} -> "ROL"
              [] a = 2 /\ b \notin {0, 4, 6} -> "LSR"
              [] a = 3 /\ b \notin {0, 4, 6} -> "ROR"
              [] a = 4 /\ b # 4 ->
                   (CASE b = 0 -> "NOP" [] b = 1 -> "STX" [] b = 2 -> "TXA"
                      [] b = 3 -> "STX" [] b = 5 -> "STX" [] b = 6 -> "TXS"
                      [] b = 7 -> "SHX" [] OTHER -> "unreachable")
              [] a = 5 /\ b # 4 ->
                   (CASE b = 0 -> "LDX" [] b = 1 -> "LDX" [] b = 2 -> "TAX"
                      [] b = 3 -> "LDX" [] b = 5 -> "LDX" [] b = 6 -> "TSX"
                      [] b = 7 -> "LDX" [] OTHER -> "unreachable")
              [] a = 6 /\ b # 4 ->
                   (CASE b = 0 -> "NOP" [] b = 1 -> "DEC" [] b = 2 -> "DEX"
                      [] b = 3 -> "DEC" [] b = 5 -> "DEC" [] b = 6 -> "NOP"
                      [] b = 7 -> "DEC" [] OTHER -> "unreachable")
              [] a = 7 /\ b # 4 ->
                   (CASE b = 0 -> "NOP" [] b = 1 -> "INC" [] b = 2 -> "NOP"
                      [] b = 3 -> "INC" [] b = 5 -> "INC" [] b = 6 -> "NOP"
                      [] b = 7 -> "INC" [] OTHER -> "unreachable")
              [] OTHER -> "unreachable")
      [] c = 3 ->
           (CASE a = 0 -> (IF b = 2 THEN "ANC" ELSE "SLO")
              [] a = 1 -> (IF b = 2 THEN "ANC" ELSE "RLA")
              [] a = 2 -> (IF b = 2 THEN "ALR" ELSE "SRE")
              [] a = 3 -> (IF b = 2 THEN "ARR" ELSE "RRA")
              [] a = 4 -> (CASE b = 0 -> "SAX" [] b = 1 -> "SAX" [] b = 2 -> "ANE"
                             [] b = 3 -> "SAX" [] b = 4 -> "SHA" [] b = 5 -> "SAX"
                             [] b = 6 -> "TAX" [] b = 7 -> "SHA" [] OTHER -> "unreachable")
              [] a = 5 -> (CASE b = 2 -> "LXA" [] b = 6 -> "LAS"
                             [] b \in {0, 1, 3, 4, 5, 7} -> "LAX" [] OTHER -> "unreachable")
              [] a = 6 -> (IF b = 2 THEN "SBX" ELSE "DCP")
              [] a = 7 -> (IF b = 2 THEN "SBC" ELSE "ISC")
              [] OTHER -> "unreachable")
      [] OTHER -> "unreachable"

decode_addr_mode(a, b, c) ==
    CASE b = 0 /\ c = 0 -> (IF a = 1 THEN "Absolute"
                            ELSE IF a < 4 THEN "Implied" ELSE "Immediate")
      [] b = 0 /\ c = 1 -> "XIndirect"
      [] b = 0 /\ c = 2 -> (IF a < 4 THEN "Implied" ELSE "Immediate")
      [] b = 0 /\ c = 3 -> "XIndirect"
      [] b = 1 -> "Zero"
      [] b = 2 /\ c = 0 -> "Implied"
      [] b = 2 /\ c = 1 -> "Immediate"
      [] b = 2 /\ c = 2 -> (IF a < 4 THEN "Accumulator" ELSE "Implied")
      [] b = 2 /\ c = 3 -> "Immediate"
      [] b = 3 -> (IF c = 0 /\ a = 3 THEN "Indirect" ELSE "Absolute")
      [] b = 4 /\ c = 0 -> "Relative"
      [] b = 4 /\ c = 1 -> "IndirectY"
      [] b = 4 /\ c = 2 -> "Implied"
      [] b = 4 /\ c = 3 -> "IndirectY"
      [] b = 5 -> (IF c \in {2, 3} /\ a \in {4, 5} THEN "ZeroY" ELSE "ZeroX")
      [] b = 6 -> (IF c \in {0, 2} THEN "Implied" ELSE "AbsoluteY")
      [] b = 7 -> (IF c \in {2, 3} /\ a \in {4, 5} THEN "AbsoluteY" ELSE "AbsoluteX")
      [] OTHER -> "unreachable"

decode_shifted_b(opcode) ==
    LET a == opcode \div 32
        b == (opcode \div 2) % 8
        c == opcode % 4
    IN  [op |-> decode_op(a, b, c), mode |-> decode_addr_mode(a, b, c)]

decode(opcode) ==
    LET a == opcode \div 32
        b == (opcode \div 4) % 8
        c == opcode % 4
    IN  [op |-> decode_op(a, b, c), mode |-> decode_addr_mode(a, b, c)]

is_rmw(op) ==
    op \in {"ASL", "LSR", "ROL", "ROR", "INC", "DEC", "SLO", "SRE", "RLA", "RRA",
            "ISC", "DCP", "SHA", "SHX", "SHY"}

reads_operand(op) ==
    is_rmw(op) \/ op \in {"LDA", "LDX", "LDY", "EOR", "AND", "ORA", "ADC", "SBC",
                          "CMP", "CPX", "CPY", "BIT", "LAX", "NOP"}

writes_operand(op) == is_rmw(op) \/ op \in {"STA", "STX", "STY", "SAX"}

\* Opcode::ignores_operand belongs to the instruction module of the cpu.rs
\* revision, which the tree does not carry; an instruction skips the operand
\* read exactly when it does not read its operand.
ignores_operand(op) == ~reads_operand(op)

----------------------------------------------------------------------------
(* The processor, src/cpu.rs.  A processor state s is a record             *)
(*   [c |-> the Cpu struct, b |-> the CpuBus, p |-> a panic was raised].   *)

Flags_init ==
    [carry |-> FALSE, overflow |-> FALSE, zero |-> FALSE, negative |-> FALSE,
     decimal |-> FALSE, irq_disable |-> TRUE]

Flags_to_byte(f, b_flag) ==
    B2N(f.carry) + 2 * B2N(f.zero) + 4 * B2N(f.irq_disable) + 8 * B2N(f.decimal)
    + 16 * B2N(b_flag) + 32 + 64 * B2N(f.overflow) + 128 * B2N(f.negative)

Flags_from_byte(byte) ==
    [carry |-> TestBit(byte, 0), zero |-> TestBit(byte, 1),
     irq_disable |-> TestBit(byte, 2), decimal |-> TestBit(byte, 3),
     overflow |-> TestBit(byte, 6), negative |-> TestBit(byte, 7)]

BreakMode_brk ==
    [vector |-> 65534, b_flag |-> TRUE, write |-> TRUE, set_irq_disable |-> TRUE,
     increment_pc |-> TRUE]

BreakMode_irq ==
    [vector |-> 65534, b_flag |-> FALSE, write |-> TRUE, set_irq_disable |-> TRUE,
     increment_pc |-> FALSE]

BreakMode_nmi_on_irq_vector ==
    [vector |-> 65534, set_irq_disable |-> FALSE, increment_pc |-> FALSE,
     b_flag |-> FALSE, write |-> TRUE]

BreakMode_nmi ==
    [vector |-> 65530, b_flag |-> FALSE, write |-> TRUE, set_irq_disable |-> FALSE,
     increment_pc |-> FALSE]

BreakMode_reset ==
    [vector |-> 65532, b_flag |-> FALSE, write |-> FALSE, set_irq_disable |-> TRUE,
     increment_pc |-> FALSE]

State_init ==
    [break_mode |-> BreakMode_reset, address_mode_cycles |-> 0, opcode_cycles |-> 0,
     address_mode_done |-> TRUE, opcode |-> "BRK", address_mode |-> "Implied",
     address |-> 0, page_crossed |-> FALSE]

\* jammed is the latch of the JAM instructions; cpu.rs predates it.
Cpu_new ==
    [a |-> 0, x |-> 0, y |-> 0, sp |-> 0, pc |-> 0,
     last_nmi |-> FALSE, nmi_pending |-> FALSE, irq_pending |-> FALSE,
     flags |-> Flags_init, state |-> State_init, jammed |-> FALSE]

panic(s) == [s EXCEPT !.p = TRUE]

set_regular_flags(s, value) ==
    [s EXCEPT !.c.flags.zero = (value = 0), !.c.flags.negative = (value > 127)]

read(s, address) == [s EXCEPT !.b.address = address]

write(s, address, value) ==
    [s EXCEPT !.b.address = address, !.b.data = value, !.b.read = FALSE]

push_predecrement(s, value) ==
    LET sp == (s.c.sp + 255) % 256
    IN  write([s EXCEPT !.c.sp = sp], 256 + sp, value)

push(s, value) ==
    LET address == 256 + s.c.sp
    IN  write([s EXCEPT !.c.sp = (@ + 255) % 256], address, value)

pop(s) ==
    LET sp == (s.c.sp + 1) % 256
    IN  read([s EXCEPT !.c.sp = sp], 256 + sp)

\* pc += 1 is a checked addition: past $FFFF a debug build panics and a
\* release build wraps.  The wrapped value is kept and the panic recorded.
read_pc_byte(s) ==
    LET r == read(s, s.c.pc)
    IN  [r EXCEPT !.c.pc = (@ + 1) % 65536, !.p = @ \/ (s.c.pc = 65535)]

start_address_operand(s, byte) == [s EXCEPT !.c.state.address = byte]

finish_address_operand(s, byte) ==
    [s EXCEPT !.c.state.address = Or16(@, byte * 256)]

set_address(s, address) == [s EXCEPT !.c.state.address = address]

cross_page(s) == [s EXCEPT !.c.state.page_crossed = TRUE]

read_address(s) == read(s, s.c.state.address)

add_address_carry(s, offset) == (s.c.state.address % 256) + offset > 255

add_address(s, offset) ==
    LET low == s.c.state.address % 256
        high == s.c.state.address \div 256
        carry == low + offset > 255
        new_low == (low + offset) % 256
        new_high == IF ~carry THEN high ELSE (high + 1) % 256
    IN  set_address(s, new_low + 256 * new_high)

pcl(s) == s.c.pc % 256

pch(s) == s.c.pc \div 256

ignore_operand(s) == ignores_operand(s.c.state.opcode)

\* Op applied to the value v: names an intermediate state once.
With(v, Op(_)) == Op(v)

sync_state(s, opcode, address_mode) ==
    [s EXCEPT !.c.state.address_mode_done = FALSE,
              !.c.state.opcode = opcode,
              !.c.state.address_mode = address_mode,
              !.c.state.address_mode_cycles = 0,
              !.c.state.opcode_cycles = 0,
              !.c.state.break_mode = BreakMode_brk,
              !.c.state.page_crossed = FALSE]

fetch_ignores_mask(s) ==
    IF s.c.nmi_pending
    THEN [sync_state([s EXCEPT !.c.nmi_pending = FALSE], "BRK", "Implied")
            EXCEPT !.c.state.break_mode = BreakMode_nmi]
    ELSE IF s.c.irq_pending
    THEN [sync_state(s, "BRK", "Implied") EXCEPT !.c.state.break_mode = BreakMode_irq]
    ELSE [read_pc_byte(s) EXCEPT !.b.sync = TRUE]

fetch(s) ==
    IF s.c.nmi_pending
    THEN [sync_state([s EXCEPT !.c.nmi_pending = FALSE], "BRK", "Implied")
            EXCEPT !.c.state.break_mode = BreakMode_nmi]
    ELSE IF s.c.irq_pending /\ ~s.c.flags.irq_disable
    THEN [sync_state(s, "BRK", "Implied") EXCEPT !.c.state.break_mode = BreakMode_irq]
    ELSE [read_pc_byte(s) EXCEPT !.b.sync = TRUE]

poll_interrupts_level(s) ==
    [s EXCEPT !.c.nmi_pending = @ \/ s.b.nmi,
              !.c.irq_pending = s.b.irq,
              !.c.last_nmi = s.b.nmi]

poll_interrupts(s) ==
    [s EXCEPT !.c.nmi_pending = @ \/ (~s.c.last_nmi /\ s.b.nmi),
              !.c.irq_pending = s.b.irq,
              !.c.last_nmi = s.b.nmi]

cpu_decode(s) ==
    LET d == decode(s.b.data)
    IN  sync_state(s, d.op, d.mode)

----------------------------------------------------------------------------
(* Addressing modes.  Each returns the state with address_mode_done set to *)
(* the value the Rust function returns.                                    *)

ret(s, done) == [s EXCEPT !.c.state.address_mode_done = done]

exec_immediate(s) ==
    CASE s.c.state.address_mode_cycles = 0 -> ret(read_pc_byte(s), FALSE)
      [] s.c.state.address_mode_cycles = 1 -> ret(s, TRUE)
      [] OTHER -> panic(s)

exec_zero(s) ==
    CASE s.c.state.address_mode_cycles = 0 -> ret(read_pc_byte(s), FALSE)
      [] s.c.state.address_mode_cycles = 1 ->
           LET s1 == start_address_operand(s, s.b.data)
           IN  IF ignore_operand(s1) THEN ret(s1, TRUE)
               ELSE ret(read_address(s1), FALSE)
      [] s.c.state.address_mode_cycles = 2 -> ret(s, TRUE)
      [] OTHER -> panic(s)

exec_zero_offset(s, offset) ==
    CASE s.c.state.address_mode_cycles = 0 -> ret(read_pc_byte(s), FALSE)
      [] s.c.state.address_mode_cycles = 1 ->
           ret(start_address_operand(s, (s.b.data + offset) % 256), FALSE)
      [] s.c.state.address_mode_cycles = 2 ->
           IF ignore_operand(s) THEN ret(s, TRUE)
           ELSE ret(read(s, s.c.state.address % 256), FALSE)
      [] s.c.state.address_mode_cycles = 3 -> ret(s, TRUE)
      [] OTHER -> panic(s)

exec_absolute(s) ==
    CASE s.c.state.address_mode_cycles = 0 -> ret(read_pc_byte(s), FALSE)
      [] s.c.state.address_mode_cycles = 1 ->
           ret(read_pc_byte(start_address_operand(s, s.b.data)), FALSE)
      [] s.c.state.address_mode_cycles = 2 ->
           LET s1 == finish_address_operand(s, s.b.data)
               ignores == ignore_operand(s1)
           IN  ret(IF ~ignores THEN read_address(s1) ELSE s1, ignores)
      [] s.c.state.address_mode_cycles = 3 -> ret(s, TRUE)
      [] OTHER -> panic(s)

exec_absolute_offset(s, offset) ==
    CASE s.c.state.address_mode_cycles = 0 -> ret(read_pc_byte(s), FALSE)
      [] s.c.state.address_mode_cycles = 1 ->
           ret(read_pc_byte(start_address_operand(s, s.b.data)), FALSE)
      [] s.c.state.address_mode_cycles = 2 ->
           LET s1 == finish_address_operand(s, s.b.data)
               carry == add_address_carry(s1, offset)
               s2 == add_address(s1, offset)
               s3 == IF carry THEN cross_page(s2) ELSE s2
               ignores == ignore_operand(s3)
           IN  ret(IF ~ignores THEN read_address(s3) ELSE s3, ignores)
      [] s.c.state.address_mode_cycles = 3 ->
           IF s.c.state.page_crossed THEN ret(read_address(s), FALSE) ELSE ret(s, TRUE)
      [] s.c.state.address_mode_cycles = 4 -> ret(s, TRUE)
      [] OTHER -> panic(s)

exec_indirect(s) ==
    CASE s.c.state.address_mode_cycles = 0 -> ret(read_pc_byte(s), FALSE)
      [] s.c.state.address_mode_cycles = 1 ->
           ret(read_pc_byte(start_address_operand(s, s.b.data)), FALSE)
      [] s.c.state.address_mode_cycles = 2 ->
           ret(read_address(finish_address_operand(s, s.b.data)), FALSE)
      [] s.c.state.address_mode_cycles = 3 ->
           LET low == (Lo(s.c.state.address) + 1) % 256
               address == MkWord(low, Hi(s.c.state.address))
           IN  ret(start_address_operand(read(s, address), s.b.data), FALSE)
      [] s.c.state.address_mode_cycles = 4 ->
           ret(finish_address_operand(s, s.b.data), TRUE)
      [] OTHER -> panic(s)

exec_indirect_x(s) ==
    CASE s.c.state.address_mode_cycles = 0 -> ret(read_pc_byte(s), FALSE)
      [] s.c.state.address_mode_cycles = 1 ->
           ret(start_address_operand(s, (s.b.data + s.c.x) % 256), FALSE)
      [] s.c.state.address_mode_cycles = 2 -> ret(read_address(s), FALSE)
      [] s.c.state.address_mode_cycles = 3 ->
           LET address == s.c.state.address
           IN  ret(read(start_address_operand(s, s.b.data), (address + 1) % 256), FALSE)
      [] s.c.state.address_mode_cycles = 4 ->
           LET s1 == finish_address_operand(s, s.b.data)
               ignore == ignore_operand(s1)
           IN  ret(IF ~ignore THEN read_address(s1) ELSE s1, ignore)
      [] s.c.state.address_mode_cycles = 5 -> ret(s, TRUE)
      [] OTHER -> panic(s)

exec_indirect_y(s) ==
    CASE s.c.state.address_mode_cycles = 0 -> ret(read_pc_byte(s), FALSE)
      [] s.c.state.address_mode_cycles = 1 ->
           ret(read_address(start_address_operand(s, s.b.data)), FALSE)
      [] s.c.state.address_mode_cycles = 2 ->
           LET address == s.c.state.address + 1
           IN  ret(read(start_address_operand(s, s.b.data), address % 256), FALSE)
      [] s.c.state.address_mode_cycles = 3 ->
           LET s1 == finish_address_operand(s, s.b.data)
               carry == add_address_carry(s1, s.c.y)
               s2 == add_address(s1, s.c.y)
               s3 == IF carry THEN cross_page(s2) ELSE s2
               ignores == ignore_operand(s3)
           IN  ret(IF ~ignores /\ ~carry THEN read_address(s3) ELSE s3, ignores)
      [] s.c.state.address_mode_cycles = 4 ->
           IF s.c.state.page_crossed THEN ret(read_address(s), FALSE) ELSE ret(s, TRUE)
      [] s.c.state.address_mode_cycles = 5 -> ret(s, TRUE)
      [] OTHER -> panic(s)

exec_relative(s) ==
    CASE s.c.state.address_mode_cycles = 0 -> ret(read_pc_byte(s), FALSE)
      [] s.c.state.address_mode_cycles = 1 ->
           LET offset == sign_cast(s.b.data)
               address == (s.c.pc + offset + 65536) % 65536
               s1 == IF address \div 256 # s.c.pc \div 256 THEN cross_page(s) ELSE s
           IN  ret(set_address(s1, address), TRUE)
      [] OTHER -> panic(s)

exec_address_mode(s) ==
    With(
      LET m == s.c.state.address_mode
      IN   CASE m = "Implied" -> ret(s, TRUE)
               [] m = "Accumulator" -> ret(s, TRUE)
               [] m = "Immediate" -> exec_immediate(s)
               [] m = "Zero" -> exec_zero(s)
               [] m = "ZeroX" -> exec_zero_offset(s, s.c.x)
               [] m = "ZeroY" -> exec_zero_offset(s, s.c.y)
               [] m = "Absolute" -> exec_absolute(s)
               [] m = "AbsoluteX" -> exec_absolute_offset(s, s.c.x)
               [] m = "AbsoluteY" -> exec_absolute_offset(s, s.c.y)
               [] m = "Indirect" -> exec_indirect(s)
               [] m = "XIndirect" -> exec_indirect_x(s)
               [] m = "IndirectY" -> exec_indirect_y(s)
               [] OTHER -> exec_relative(s),
      LAMBDA r : [r EXCEPT !.c.state.address_mode_cycles = @ + 1])
----------------------------------------------------------------------------
(* Instructions.                                                           *)

opc(s) == s.c.state.opcode_cycles

\* An instruction whose body is "cycle 0: effect, cycle 1: fetch".
two_cycle(s, effect) ==
    CASE opc(s) = 0 -> effect
      [] opc(s) = 1 -> fetch(s)
      [] OTHER -> panic(s)

\* debug_assert_eq!(opcode_cycles, 0) guards the single-cycle bodies.
assert_cycle0(s, body) == IF opc(s) = 0 THEN body ELSE panic(body)

exec_adc(s) ==
    LET b == s.b.data
        sum == s.c.a + b + B2N(s.c.flags.carry)
        ssum == sign_cast(s.c.a) + sign_cast(b) + B2N(s.c.flags.carry)
        a == sum % 256
        s1 == [s EXCEPT !.c.a = a, !.c.flags.carry = (sum > 255),
                        !.c.flags.overflow = (ssum > 127 \/ ssum < -128)]
    IN  assert_cycle0(s, fetch(set_regular_flags(s1, a)))

exec_sbc(s) ==
    LET b == s.b.data
        diff == s.c.a - b - B2N(~s.c.flags.carry)
        sdiff == sign_cast(s.c.a) - sign_cast(b) - B2N(s.c.flags.carry)
        a == (diff + 256) % 256
        s1 == [s EXCEPT !.c.a = a, !.c.flags.carry = ~(diff < 0),
                        !.c.flags.overflow = (sdiff > 127 \/ sdiff < -128)]
    IN  assert_cycle0(s, fetch(set_regular_flags(s1, a)))

exec_and(s) ==
    LET a == And8(s.c.a, s.b.data)
    IN  assert_cycle0(s, fetch(set_regular_flags([s EXCEPT !.c.a = a], a)))

exec_eor(s) ==
    LET a == Xor8(s.c.a, s.b.data)
    IN  assert_cycle0(s, fetch(set_regular_flags([s EXCEPT !.c.a = a], a)))

exec_ora(s) ==
    LET a == Or8(s.c.a, s.b.data)
    IN  assert_cycle0(s, fetch(set_regular_flags([s EXCEPT !.c.a = a], a)))

exec_bit(s) ==
    LET b == s.b.data
    IN  assert_cycle0(s, fetch([s EXCEPT !.c.flags.negative = TestBit(b, 7),
                                         !.c.flags.overflow = TestBit(b, 6),
                                         !.c.flags.zero = (And8(s.c.a, b) = 0)]))

\* A branch with no cycle for the page crossing.
exec_generic_branch_no_cross(s, c) ==
    CASE opc(s) = 0 -> (IF c THEN [s EXCEPT !.c.pc = s.c.state.address] ELSE fetch(s))
      [] opc(s) = 1 -> fetch(s)
      [] opc(s) = 2 -> fetch(s)
      [] OTHER -> panic(s)

exec_generic_branch(s, c) ==
    CASE opc(s) = 0 -> (IF c THEN [s EXCEPT !.c.pc = s.c.state.address] ELSE fetch(s))
      [] opc(s) = 1 -> (IF ~s.c.state.page_crossed THEN fetch(s) ELSE s)
      [] opc(s) = 2 -> fetch(s)
      [] OTHER -> panic(s)

exec_brk(s) ==
    LET bm == s.c.state.break_mode
    IN  CASE opc(s) = 0 ->
               (IF bm.increment_pc
                THEN [s EXCEPT !.c.pc = (@ + 1) % 65536, !.p = @ \/ (s.c.pc = 65535)]
                ELSE s)
          [] opc(s) = 1 -> (IF bm.write THEN push(s, pch(s)) ELSE s)
          [] opc(s) = 2 -> (IF bm.write THEN push(s, pcl(s)) ELSE s)
          [] opc(s) = 3 ->
               (IF bm.write THEN push(s, Flags_to_byte(s.c.flags, bm.b_flag)) ELSE s)
          [] opc(s) = 4 -> read(s, bm.vector)
          [] opc(s) = 5 -> read(start_address_operand(s, s.b.data), bm.vector + 1)
          [] opc(s) = 6 ->
               LET s1 == IF bm.set_irq_disable
                         THEN [s EXCEPT !.c.flags.irq_disable = TRUE] ELSE s
                   s2 == finish_address_operand(s1, s.b.data)
               IN  fetch([s2 EXCEPT !.c.pc = s2.c.state.address])
          [] OTHER -> panic(s)

exec_compare(s, a) ==
    LET b == s.b.data
        result == (a - b + 256) % 256
    IN  IF opc(s) = 0
        THEN fetch(set_regular_flags([s EXCEPT !.c.flags.carry = ~(a < b)], result))
        ELSE panic(s)

\* The two writes collapsed into one: the cycle of the first write repeats
\* the operand read.
exec_rmw_one_write(s, value, carry) ==
    IF s.c.state.address_mode = "Accumulator"
    THEN CASE opc(s) = 0 ->
                set_regular_flags([s EXCEPT !.c.a = value, !.c.flags.carry = carry], value)
           [] opc(s) = 1 -> fetch(s)
           [] OTHER -> panic(s)
    ELSE CASE opc(s) = 0 -> s
           [] opc(s) = 1 ->
                write(set_regular_flags([s EXCEPT !.c.flags.carry = carry], value),
                      s.c.state.address, value)
           [] opc(s) = 2 -> fetch(s)
           [] OTHER -> panic(s)

exec_rmw(s, value, carry) ==
    IF s.c.state.address_mode = "Accumulator"
    THEN CASE opc(s) = 0 ->
                set_regular_flags([s EXCEPT !.c.a = value, !.c.flags.carry = carry], value)
           [] opc(s) = 1 -> fetch(s)
           [] OTHER -> panic(s)
    ELSE CASE opc(s) = 0 -> write(s, s.c.state.address, s.b.data)
           [] opc(s) = 1 ->
                write(set_regular_flags([s EXCEPT !.c.flags.carry = carry], value),
                      s.c.state.address, value)
           [] opc(s) = 2 -> fetch(s)
           [] OTHER -> panic(s)

\* The operand of a read-modify-write body: the accumulator or the bus data.
rmw_in(s) == IF s.c.state.address_mode = "Accumulator" THEN s.c.a ELSE s.b.data

exec_asl(s) == exec_rmw(s, (rmw_in(s) * 2) % 256, TestBit(rmw_in(s), 7))

exec_lsr(s) == exec_rmw(s, rmw_in(s) \div 2, TestBit(rmw_in(s), 0))

exec_rol(s) ==
    exec_rmw(s, ((rmw_in(s) * 2) % 256) + B2N(s.c.flags.carry), TestBit(rmw_in(s), 7))

exec_ror(s) ==
    exec_rmw(s, (rmw_in(s) \div 2) + 128 * B2N(s.c.flags.carry), TestBit(rmw_in(s), 0))

exec_dec(s) == exec_rmw(s, (rmw_in(s) + 255) % 256, s.c.flags.carry)

exec_inc(s) == exec_rmw(s, (rmw_in(s) + 1) % 256, s.c.flags.carry)

exec_load(s, reg) ==
    IF opc(s) = 0
    THEN fetch(set_regular_flags([s EXCEPT !.c[reg] = s.b.data], s.b.data))
    ELSE panic(s)

exec_step_reg(s, reg, delta) ==
    LET value == (s.c[reg] + delta) % 256
    IN  two_cycle(s, [set_regular_flags(s, value) EXCEPT !.c[reg] = value])

exec_set_flag(s, flag, value) == two_cycle(s, [s EXCEPT !.c.flags[flag] = value])

exec_nop(s) == two_cycle(s, s)

exec_store(s, value) == two_cycle(s, write(s, s.c.state.address, value))

exec_transfer(s, value, into) ==
    LET s1 == [s EXCEPT !.c[into] = value]
    IN  two_cycle(s, IF into # "sp" THEN set_regular_flags(s1, value) ELSE s1)

exec_jmp(s) == assert_cycle0(s, fetch([s EXCEPT !.c.pc = s.c.state.address]))

exec_jsr(s) ==
    CASE opc(s) = 0 ->
           LET s1 == [s EXCEPT !.c.pc = (@ + 65535) % 65536, !.p = @ \/ (s.c.pc = 0)]
           IN  push(s1, pch(s1))
      [] opc(s) = 1 -> [push(s, pcl(s)) EXCEPT !.c.pc = s.c.state.address]
      [] opc(s) = 2 -> fetch(s)
      [] OTHER -> panic(s)

exec_pha(s) ==
    CASE opc(s) = 0 -> s
      [] opc(s) = 1 -> push(s, s.c.a)
      [] opc(s) = 2 -> fetch(s)
      [] OTHER -> panic(s)

exec_php(s) ==
    CASE opc(s) = 0 -> s
      [] opc(s) = 1 -> push(s, Flags_to_byte(s.c.flags, TRUE))
      [] opc(s) = 2 -> fetch(s)
      [] OTHER -> panic(s)

exec_pla(s) ==
    CASE opc(s) = 0 -> s
      [] opc(s) = 1 -> pop(s)
      [] opc(s) = 2 -> fetch(set_regular_flags([s EXCEPT !.c.a = s.b.data], s.b.data))
      [] OTHER -> panic(s)

exec_plp(s) ==
    CASE opc(s) = 0 -> s
      [] opc(s) = 1 -> pop(s)
      [] opc(s) = 2 -> fetch([s EXCEPT !.c.flags = Flags_from_byte(s.b.data)])
      [] OTHER -> panic(s)

exec_rts(s) ==
    CASE opc(s) \in {0, 1} -> s
      [] opc(s) = 2 -> pop(s)
      [] opc(s) = 3 -> pop(start_address_operand(s, s.b.data))
      [] opc(s) = 4 -> finish_address_operand(s, s.b.data)
      [] opc(s) = 5 ->
           fetch([s EXCEPT !.c.pc = (s.c.state.address + 1) % 65536,
                           !.p = @ \/ (s.c.state.address = 65535)])
      [] OTHER -> panic(s)

exec_rti(s) ==
    CASE opc(s) \in {0, 1} -> s
      [] opc(s) = 2 -> pop(s)
      [] opc(s) = 3 -> pop([s EXCEPT !.c.flags = Flags_from_byte(s.b.data)])
      [] opc(s) = 4 -> pop(start_address_operand(s, s.b.data))
      [] opc(s) = 5 ->
           LET s1 == finish_address_operand(s, s.b.data)
           IN  fetch([s1 EXCEPT !.c.pc = s1.c.state.address])
      [] OTHER -> panic(s)

\* The JAM instructions: the processor latches jammed and issues no fetch.
exec_jam(s) == [s EXCEPT !.c.jammed = TRUE]

exec_opcode(s) ==
    With(
      LET o == s.c.state.opcode
          f == s.c.flags
      IN   CASE o = "ADC" -> exec_adc(s)
               [] o = "AND" -> exec_and(s)
               [] o = "ASL" -> exec_asl(s)
               [] o = "BCC" -> exec_generic_branch(s, ~f.carry)
               [] o = "BCS" -> exec_generic_branch(s, f.carry)
               [] o = "BEQ" -> exec_generic_branch(s, f.zero)
               [] o = "BIT" -> exec_bit(s)
               [] o = "BNE" -> exec_generic_branch(s, ~f.zero)
               [] o = "BMI" -> exec_generic_branch(s, f.negative)
               [] o = "BPL" -> exec_generic_branch(s, ~f.negative)
               [] o = "BVC" -> exec_generic_branch(s, ~f.overflow)
               [] o = "BVS" -> exec_generic_branch(s, f.overflow)
               [] o = "BRK" -> exec_brk(s)
               [] o = "CLC" -> exec_set_flag(s, "carry", FALSE)
               [] o = "CLD" -> exec_set_flag(s, "decimal", FALSE)
               [] o = "CLI" -> exec_set_flag(s, "irq_disable", FALSE)
               [] o = "CLV" -> exec_set_flag(s, "overflow", FALSE)
               [] o = "CMP" -> exec_compare(s, s.c.a)
               [] o = "CPX" -> exec_compare(s, s.c.x)
               [] o = "CPY" -> exec_compare(s, s.c.y)
               [] o = "DEC" -> exec_dec(s)
               [] o = "DEX" -> exec_step_reg(s, "x", 255)
               [] o = "DEY" -> exec_step_reg(s, "y", 255)
               [] o = "EOR" -> exec_eor(s)
               [] o = "INC" -> exec_inc(s)
               [] o = "INX" -> exec_step_reg(s, "x", 1)
               [] o = "INY" -> exec_step_reg(s, "y", 1)
               [] o = "JMP" -> exec_jmp(s)
               [] o = "JSR" -> exec_jsr(s)
               [] o = "LDA" -> exec_load(s, "a")
               [] o = "LDX" -> exec_load(s, "x")
               [] o = "LDY" -> exec_load(s, "y")
               [] o = "LSR" -> exec_lsr(s)
               [] o = "NOP" -> exec_nop(s)
               [] o = "ORA" -> exec_ora(s)
               [] o = "PHA" -> exec_pha(s)
               [] o = "PHP" -> exec_php(s)
               [] o = "PLA" -> exec_pla(s)
               [] o = "PLP" -> exec_plp(s)
               [] o = "SBC" -> exec_sbc(s)
               [] o = "SEC" -> exec_set_flag(s, "carry", TRUE)
               [] o = "SED" -> exec_set_flag(s, "decimal", TRUE)
               [] o = "SEI" -> exec_set_flag(s, "irq_disable", TRUE)
               [] o = "STA" -> exec_store(s, s.c.a)
               [] o = "STX" -> exec_store(s, s.c.x)
               [] o = "STY" -> exec_store(s, s.c.y)
               [] o = "TAX" -> exec_transfer(s, s.c.a, "x")
               [] o = "TAY" -> exec_transfer(s, s.c.a, "y")
               [] o = "TSX" -> exec_transfer(s, s.c.sp, "x")
               [] o = "TXS" -> exec_transfer(s, s.c.x, "sp")
               [] o = "TXA" -> exec_transfer(s, s.c.x, "a")
               [] o = "TYA" -> exec_transfer(s, s.c.y, "a")
               [] o = "ROL" -> exec_rol(s)
               [] o = "ROR" -> exec_ror(s)
               [] o = "RTI" -> exec_rti(s)
               [] o = "RTS" -> exec_rts(s)
               [] o = "JAM" -> exec_jam(s)
               [] OTHER -> panic(s),
      LAMBDA r : [r EXCEPT !.c.state.opcode_cycles = @ + 1])

exec(s) ==
    With(IF ~s.c.state.address_mode_done THEN exec_address_mode(s) ELSE s,
         LAMBDA s1 : IF s1.c.state.address_mode_done THEN exec_opcode(s1) ELSE s1)

Cpu_cycle_halts_writes(s) ==
    LET s1 == [s EXCEPT !.b.read = TRUE, !.b.halted = FALSE]
    IN  With(poll_interrupts(exec(
                 IF s1.b.sync THEN [cpu_decode(s1) EXCEPT !.b.sync = FALSE] ELSE s1)),
             LAMBDA s3 :
                 IF ~s1.b.ready
                 THEN [c |-> s1.c, b |-> [s1.b EXCEPT !.halted = TRUE], p |-> s3.p]
                 ELSE s3)

\* Cpu::cycle with a rollback that keeps the NMI level the halted cycle sampled.
Cpu_cycle_keeps_last_nmi(s) ==
    LET s1 == [s EXCEPT !.b.read = TRUE, !.b.halted = FALSE]
    IN  With(poll_interrupts(exec(
                 IF s1.b.sync THEN [cpu_decode(s1) EXCEPT !.b.sync = FALSE] ELSE s1)),
             LAMBDA s3 :
                 IF ~s1.b.ready /\ s3.b.read
                 THEN [c |-> [s1.c EXCEPT !.last_nmi = s3.c.last_nmi],
                       b |-> [s1.b EXCEPT !.halted = TRUE], p |-> s3.p]
                 ELSE s3)

Cpu_cycle(s) ==
    LET s1 == [s EXCEPT !.b.read = TRUE, !.b.halted = FALSE]
    IN  With(poll_interrupts(exec(
                 IF s1.b.sync THEN [cpu_decode(s1) EXCEPT !.b.sync = FALSE] ELSE s1)),
             LAMBDA s3 :
                 IF ~s1.b.ready /\ s3.b.read
                 THEN [c |-> s1.c, b |-> [s1.b EXCEPT !.halted = TRUE], p |-> s3.p]
                 ELSE s3)

\* The RESET level and the jammed latch around Cpu::cycle.  A cycle that
\* samples RESET high restarts the sequencer in its power-on state and leaves
\* the jammed state; a jammed processor otherwise idles with the bus held.
Cpu_step(s) ==
    IF ~s.b.reset /\ s.c.jammed
    THEN [s EXCEPT !.b.read = TRUE, !.b.sync = FALSE, !.b.halted = FALSE]
    ELSE Cpu_cycle(IF s.b.reset
                   THEN [s EXCEPT !.c.state = State_init, !.c.jammed = FALSE,
                                  !.b.sync = FALSE]
                   ELSE s)

\* A CpuBus implementation at power-on: nothing driven, the processor ready.
TraitBus_init ==
    [address |-> 0, data |-> 0, read |-> FALSE, sync |-> FALSE, halted |-> FALSE,
     ready |-> TRUE, nmi |-> FALSE, irq |-> FALSE, reset |-> FALSE]

----------------------------------------------------------------------------
(* The processor's environment: memory and the interrupt, ready and reset  *)
(* lines.  Before each Cpu::cycle the environment completes the            *)
(* transaction the processor left on the bus and drives the input lines.   *)

MaxCpuCycles == 15

MaxResetCycles == 18

\* BRK, PHA, CLI
OpcodeBytes == {0, 72, 88}

\* JAM, STA abs, NOP
ResetOpcodeBytes == {2, 141, 234}

DataBytes == {52}

JamBytes == {2, 18, 34, 50, 66, 82, 98, 114, 146, 178, 210, 242}

NmiVector == 128 * 256 + 16

ResetVector == 192 * 256

IrqVector == 160 * 256 + 32

VectorByte(addr) ==
    CASE addr = 65530 -> Lo(NmiVector)
      [] addr = 65531 -> Hi(NmiVector)
      [] addr = 65532 -> Lo(ResetVector)
      [] addr = 65533 -> Hi(ResetVector)
      [] addr = 65534 -> Lo(IrqVector)
      [] OTHER -> Hi(IrqVector)

EnvBytes(b, opcodes) ==
    IF ~b.read THEN {b.data}
    ELSE IF b.address \in 65530..65535 THEN {VectorByte(b.address)}
    ELSE IF b.sync THEN opcodes
    ELSE DataBytes

EnvServe(b, e) ==
    [b EXCEPT !.data = IF b.read THEN e.d ELSE @,
              !.ready = e.rdy, !.nmi = e.nmi, !.irq = e.irq, !.reset = e.rst]

Env_init == [d |-> 0, rdy |-> TRUE, nmi |-> FALSE, irq |-> FALSE, rst |-> FALSE]

(* History of the run: the interrupt, break or reset sequence in progress  *)
(* (seq), the last sequence that completed (last), the jam latch, the last *)
(* level of the NMI line with the number of its rising edges, the number   *)
(* of NMIs taken, and the level of the IRQ line in the last cycle that was *)
(* not halted (irqs).                                                      *)

NoSeq == [kind |-> "none", ret |-> 0, n |-> 0, writes |-> <<>>, power_on |-> FALSE]

NoLast ==
    [kind |-> "none", ret |-> 0, n |-> 0, writes |-> <<>>, power_on |-> FALSE,
     target |-> 0, irq_disable |-> FALSE, sp |-> 0, discarded |-> FALSE]

Obs_init ==
    [n |-> 0,
     seq |-> [NoSeq EXCEPT !.kind = "reset", !.power_on = TRUE],
     discarded |-> FALSE,
     last |-> NoLast,
     jam_dec |-> FALSE,
     jam_pc |-> 0,
     line |-> FALSE,
     edges |-> 0,
     nmis |-> 0,
     irqs |-> FALSE]

\* The transaction the processor issued in this cycle, if it is a write.
WriteOf(post) ==
    IF post.b.read THEN <<>> ELSE <<[address |-> post.b.address, data |-> post.b.data]>>

\* The cycle completes a BRK-style sequence: it runs the last step of exec_brk.
Completes(pre, post) ==
    /\ ~post.b.halted
    /\ ~pre.b.reset
    /\ ~pre.c.jammed
    /\ ~pre.b.sync
    /\ pre.c.state.opcode = "BRK"
    /\ pre.c.state.address_mode_done
    /\ pre.c.state.opcode_cycles = 6

\* The cycle is a fetch boundary at which an interrupt is taken.
Taken(pre, post) ==
    /\ ~post.b.halted
    /\ ~pre.b.reset
    /\ ~pre.c.jammed
    /\ post.c.state.opcode = "BRK"
    /\ ~post.c.state.address_mode_done

\* The address the boundary would have fetched from with no interrupt pending.
NormalFetch(pre) ==
    Cpu_cycle([pre EXCEPT !.c.nmi_pending = FALSE, !.c.irq_pending = FALSE]).b

Observe(o, pre, post) ==
    LET halted == post.b.halted
        step == [o.seq EXCEPT !.n = @ + 1, !.writes = @ \o WriteOf(post)]
        fin == [kind |-> step.kind, ret |-> step.ret, n |-> step.n,
                writes |-> step.writes, power_on |-> step.power_on,
                target |-> IF post.b.sync THEN post.b.address ELSE post.c.pc,
                irq_disable |-> post.c.flags.irq_disable, sp |-> post.c.sp,
                discarded |-> o.discarded]
        jamnow == ~halted /\ ~pre.b.reset /\ ~pre.c.jammed /\ pre.b.sync
                  /\ pre.b.data \in JamBytes
        seq2 == CASE pre.b.reset ->
                       [kind |-> "reset", ret |-> 0, n |-> IF halted THEN 0 ELSE 1,
                        writes |-> WriteOf(post), power_on |-> FALSE]
                  [] halted -> o.seq
                  [] pre.c.jammed -> o.seq
                  [] Taken(pre, post) ->
                       [kind |-> IF pre.c.nmi_pending THEN "nmi" ELSE "irq",
                        ret |-> NormalFetch(pre).address, n |-> 1, writes |-> <<>>,
                        power_on |-> FALSE]
                  [] Completes(pre, post) -> NoSeq
                  [] pre.b.sync /\ pre.b.data = 0 ->
                       [kind |-> "brk", ret |-> pre.c.pc, n |-> 1,
                        writes |-> WriteOf(post), power_on |-> FALSE]
                  [] pre.b.sync -> NoSeq
                  [] o.seq.kind # "none" -> step
                  [] OTHER -> o.seq
    IN  [n |-> o.n + 1,
         seq |-> seq2,
         discarded |-> IF ~halted /\ Taken(pre, post) THEN ~post.b.sync ELSE o.discarded,
         last |-> IF Completes(pre, post) /\ o.seq.kind # "none" THEN fin ELSE o.last,
         jam_dec |-> IF pre.b.reset THEN FALSE ELSE o.jam_dec \/ jamnow,
         jam_pc |-> IF jamnow THEN post.c.pc ELSE o.jam_pc,
         line |-> pre.b.nmi,
         edges |-> o.edges + B2N(pre.b.nmi /\ ~o.line),
         nmis |-> o.nmis + B2N(~halted /\ Taken(pre, post) /\ pre.c.nmi_pending),
         irqs |-> IF halted THEN o.irqs ELSE pre.b.irq]

----------------------------------------------------------------------------
(* The console, src/nesbus.rs.  A machine m is a record of the NesBus      *)
(* fields, a panic flag p, and the trace of the dots the PPU processed in  *)
(* the last CPU cycle.                                                     *)

\* Memories hold 0 where nothing else was stored: only non-zero cells are kept.
Get(mem, a) == IF a \in DOMAIN mem THEN mem[a] ELSE 0

Put(mem, a, v) ==
    [k \in (DOMAIN mem \cup {a}) \ (IF v = 0 THEN {a} ELSE {}) |->
        IF k = a THEN v ELSE mem[k]]

EmptyMem == [k \in {} |-> 0]

CpuBus_init ==
    [address |-> 0, data |-> 0, rst |-> FALSE, nmi |-> FALSE, irq |-> FALSE,
     read |-> FALSE, sync |-> FALSE, not_ready |-> FALSE, halt |-> FALSE]

PpuBus_init ==
    [address |-> 0, data |-> 0, read_enable |-> FALSE, write_enable |-> FALSE,
     nmi |-> FALSE]

MapperBus_init == [vram_enable |-> FALSE, vram_a10 |-> FALSE, irq |-> FALSE]

(* The APU, src/apu.rs. *)

CYCLES_PER_SAMPLE == 1789773 \div 44100

CYCLES_PER_STEP == 7457

\* Option<u8>::None of the DMC sample buffer.
None == -1

Dmc_init ==
    [irq_enable |-> FALSE, loop_playback |-> FALSE, wait_cycles |-> 54,
     cycles_since_last |-> 0, sample |-> 0, start |-> 0, length |-> 0,
     bytes_remaining |-> 0, byte_offset |-> 0, bits_remaining |-> 0,
     sample_buffer |-> None, sample_shifter |-> 0, silence |-> TRUE]

Status_init ==
    [pulse_enable |-> <<FALSE, FALSE>>, triangle_enable |-> FALSE,
     noise_enable |-> FALSE, dmc_irq |-> FALSE, frame_irq |-> FALSE]

FrameCounter_init ==
    [mode |-> FALSE, irq_disable |-> TRUE, step |-> 0, cycles_until_step |-> 0]

Dma_init ==
    [put_cycle |-> FALSE, oam_dma |-> "Idle", oam_page |-> 0, oam_step |-> 0,
     dmc_dma |-> "Idle", dmc_address |-> 0]

Apu_init ==
    [dmc |-> Dmc_init, status |-> Status_init, dma |-> Dma_init,
     frame_counter |-> FrameCounter_init, cycles_since_sample |-> 0]

wait_cycles(freq) ==
    <<428, 380, 340, 320, 286, 254, 226, 214, 190, 160, 142, 128, 106, 84, 72, 54>>[freq + 1]

produce_sample(m) ==
    IF m.apu.cycles_since_sample < CYCLES_PER_SAMPLE
    THEN [m EXCEPT !.apu.cycles_since_sample = @ + 1]
    ELSE [m EXCEPT !.apu.cycles_since_sample = 0]

update_sound_channels(m) == m

tick_frame_counter(m) ==
    LET fc == m.apu.frame_counter
        steps == IF fc.mode THEN 5 ELSE 4
    IN  IF fc.cycles_until_step < CYCLES_PER_STEP
        THEN [m EXCEPT !.apu.frame_counter.cycles_until_step = @ + 1]
        ELSE [m EXCEPT
                !.apu.frame_counter.cycles_until_step = 0,
                !.apu.status.frame_irq =
                    IF ~fc.mode /\ fc.step = 3 THEN @ \/ ~fc.irq_disable ELSE @,
                !.apu.frame_counter.step = IF fc.step + 1 >= steps THEN 0 ELSE fc.step + 1,
                !.p = @ \/ fc.step >= steps]

oam_addr_page_zero(dma) == dma.oam_step

oam_addr(dma) == Or16(dma.oam_step, dma.oam_page * 256)

start_oam_dma(m, page) ==
    [m EXCEPT !.apu.dma.oam_dma = "Started", !.apu.dma.oam_page = page,
              !.apu.dma.oam_step = 0]

start_dmc_dma(m, address) ==
    [m EXCEPT !.apu.dma.dmc_dma = "Started", !.apu.dma.dmc_address = address]

tick_counters_stuck(m) == m

tick_counters(m) == [m EXCEPT !.apu.dma.put_cycle = ~@]

\* The fetch without its dummy cycle.
perform_dmc_dma_no_dummy(m) ==
    LET d == m.apu.dma.dmc_dma
    IN  CASE d = "Idle" -> m
          [] d = "Started" ->
               IF ~m.cpu_bus.halt \/ m.apu.dma.put_cycle
               THEN [m EXCEPT !.cpu_bus.not_ready = TRUE]
               ELSE [m EXCEPT !.cpu_bus.not_ready = TRUE, !.apu.dma.dmc_dma = "ToRead"]
          [] d = "Dummy" ->
               [m EXCEPT !.cpu_bus.not_ready = TRUE, !.apu.dma.dmc_dma = "ToRead"]
          [] d = "ToRead" ->
               [m EXCEPT !.cpu_bus.not_ready = TRUE,
                         !.cpu_bus.address = m.apu.dma.dmc_address,
                         !.cpu_bus.read = TRUE,
                         !.apu.dma.dmc_dma = "ToReceive"]
          [] OTHER -> m

\* Dma::perform_dmc_dma; the Rust return value is perform_dmc_dma_halts.
perform_dmc_dma_halts(m) == m.apu.dma.dmc_dma = "ToRead"

perform_dmc_dma(m) ==
    LET d == m.apu.dma.dmc_dma
    IN  CASE d = "Idle" -> m
          [] d = "Started" ->
               IF ~m.cpu_bus.halt \/ m.apu.dma.put_cycle
               THEN [m EXCEPT !.cpu_bus.not_ready = TRUE]
               ELSE [m EXCEPT !.cpu_bus.not_ready = TRUE, !.apu.dma.dmc_dma = "Dummy"]
          [] d = "Dummy" ->
               [m EXCEPT !.cpu_bus.not_ready = TRUE, !.apu.dma.dmc_dma = "ToRead"]
          [] d = "ToRead" ->
               [m EXCEPT !.cpu_bus.not_ready = TRUE,
                         !.cpu_bus.address = m.apu.dma.dmc_address,
                         !.cpu_bus.read = TRUE,
                         !.apu.dma.dmc_dma = "ToReceive"]
          [] OTHER -> m

\* An OAM DMA that takes the cycle of a DMC read for its own.
Dma_perform_dma_no_align(m) ==
    LET m0 == [m EXCEPT !.cpu_bus.not_ready = FALSE]
        halt_oam == perform_dmc_dma_halts(m0)
        m1 == perform_dmc_dma(m0)
        o == m1.apu.dma.oam_dma
    IN  IF halt_oam
        THEN (IF o = "ToRead" THEN [m1 EXCEPT !.apu.dma.oam_dma = "ToWrite"] ELSE m1)
        ELSE CASE o = "Idle" -> m1
               [] o = "Started" ->
                    IF ~m1.cpu_bus.halt \/ m1.apu.dma.put_cycle
                    THEN [m1 EXCEPT !.cpu_bus.not_ready = TRUE]
                    ELSE [m1 EXCEPT !.cpu_bus.not_ready = TRUE,
                                    !.cpu_bus.read = TRUE,
                                    !.cpu_bus.address = oam_addr(m1.apu.dma),
                                    !.apu.dma.oam_dma = "ToWrite"]
               [] o = "ToWrite" ->
                    [m1 EXCEPT !.cpu_bus.not_ready = TRUE,
                               !.cpu_bus.read = FALSE,
                               !.cpu_bus.address = 8196,
                               !.apu.dma.oam_dma =
                                   IF m1.apu.dma.oam_step = 255 THEN "Idle" ELSE "ToRead",
                               !.apu.dma.oam_step = (@ + 1) % 256]
               [] o = "ToRead" ->
                    [m1 EXCEPT !.cpu_bus.not_ready = TRUE,
                               !.cpu_bus.address = oam_addr(m1.apu.dma),
                               !.cpu_bus.read = TRUE,
                               !.apu.dma.oam_dma = "ToWrite"]
               [] OTHER ->
                    [m1 EXCEPT !.cpu_bus.not_ready = TRUE, !.apu.dma.oam_dma = "ToRead"]

Dma_perform_dma(m) ==
    LET m0 == [m EXCEPT !.cpu_bus.not_ready = FALSE]
        halt_oam == perform_dmc_dma_halts(m0)
        m1 == perform_dmc_dma(m0)
        o == m1.apu.dma.oam_dma
    IN  IF halt_oam
        THEN (IF o = "ToRead" THEN [m1 EXCEPT !.apu.dma.oam_dma = "Align"] ELSE m1)
        ELSE CASE o = "Idle" -> m1
               [] o = "Started" ->
                    IF ~m1.cpu_bus.halt \/ m1.apu.dma.put_cycle
                    THEN [m1 EXCEPT !.cpu_bus.not_ready = TRUE]
                    ELSE [m1 EXCEPT !.cpu_bus.not_ready = TRUE,
                                    !.cpu_bus.read = TRUE,
                                    !.cpu_bus.address = oam_addr(m1.apu.dma),
                                    !.apu.dma.oam_dma = "ToWrite"]
               [] o = "ToWrite" ->
                    [m1 EXCEPT !.cpu_bus.not_ready = TRUE,
                               !.cpu_bus.read = FALSE,
                               !.cpu_bus.address = 8196,
                               !.apu.dma.oam_dma =
                                   IF m1.apu.dma.oam_step = 255 THEN "Idle" ELSE "ToRead",
                               !.apu.dma.oam_step = (@ + 1) % 256]
               [] o = "ToRead" ->
                    [m1 EXCEPT !.cpu_bus.not_ready = TRUE,
                               !.cpu_bus.address = oam_addr(m1.apu.dma),
                               !.cpu_bus.read = TRUE,
                               !.apu.dma.oam_dma = "ToWrite"]
               [] OTHER ->
                    [m1 EXCEPT !.cpu_bus.not_ready = TRUE, !.apu.dma.oam_dma = "ToRead"]

Apu_perform_dma(m) ==
    Dma_perform_dma(
        IF m.apu.dma.dmc_dma = "ToReceive"
        THEN [m EXCEPT !.apu.dmc.sample_buffer = m.cpu_bus.data,
                       !.apu.dma.dmc_dma = "Idle"]
        ELSE m)

update_dmc_output(m) ==
    LET dmc == m.apu.dmc
    IN  IF dmc.cycles_since_last < dmc.wait_cycles
        THEN [m EXCEPT !.apu.dmc.cycles_since_last = @ + 1]
        ELSE LET reload == dmc.bits_remaining = 0
                 taken == reload /\ dmc.sample_buffer # None
                 silence == IF reload THEN ~taken ELSE dmc.silence
                 shifter == IF taken THEN dmc.sample_buffer ELSE dmc.sample_shifter
                 bits == IF reload THEN 8 ELSE dmc.bits_remaining
                 delta == IF shifter % 2 = 1 THEN 2 ELSE -2
                 moved == IF dmc.sample + delta < 0 THEN 0
                          ELSE IF dmc.sample + delta > 255 THEN 255
                          ELSE dmc.sample + delta
                 sample == IF silence THEN dmc.sample
                           ELSE IF moved > 127 THEN 127 ELSE moved
             IN  [m EXCEPT !.apu.dmc.cycles_since_last = 0,
                           !.apu.dmc.silence = silence,
                           !.apu.dmc.sample_buffer = IF reload THEN None ELSE @,
                           !.apu.dmc.sample = sample,
                           !.apu.dmc.sample_shifter = shifter \div 2,
                           !.apu.dmc.bits_remaining = bits - 1]

\* start + byte_offset is a checked u16 addition.
update_dmc_dma(m) ==
    LET dmc == m.apu.dmc
        addr == dmc.start + dmc.byte_offset
        left == dmc.bytes_remaining - 1
        m1 == start_dmc_dma(m, addr % 65536)
    IN  IF dmc.sample_buffer # None \/ m.apu.dma.dmc_dma # "Idle"
           \/ dmc.bytes_remaining = 0
        THEN m
        ELSE [m1 EXCEPT
                !.p = @ \/ addr > 65535,
                !.apu.status.dmc_irq = IF left = 0 THEN @ \/ dmc.irq_enable ELSE @,
                !.apu.dmc.bytes_remaining =
                    IF left = 0 /\ dmc.loop_playback THEN dmc.length ELSE left,
                !.apu.dmc.byte_offset =
                    IF left = 0 /\ dmc.loop_playback THEN 0 ELSE dmc.byte_offset + 1]

update_dmc(m) == update_dmc_dma(update_dmc_output(m))

Apu_handle_cpu(m) ==
    LET a == m.cpu_bus.address
        data == m.cpu_bus.data
        rd == m.cpu_bus.read
    IN  CASE a = 16400 /\ ~rd ->
               [m EXCEPT !.apu.dmc.irq_enable = TestBit(data, 7),
                         !.apu.dmc.loop_playback = TestBit(data, 6),
                         !.apu.dmc.wait_cycles = wait_cycles(data % 16)]
          [] a = 16401 /\ ~rd -> [m EXCEPT !.apu.dmc.sample = And8(data, 143)]
          [] a = 16402 /\ ~rd -> [m EXCEPT !.apu.dmc.start = data * 64 + 49152]
          [] a = 16403 /\ ~rd -> [m EXCEPT !.apu.dmc.length = data * 16 + 1]
          [] a = 16404 /\ ~rd -> start_oam_dma(m, data)
          [] a = 16405 /\ rd ->
               [m EXCEPT !.cpu_bus.data =
                             16 * B2N(m.apu.dmc.bytes_remaining # 0)
                             + 64 * B2N(m.apu.status.dmc_irq)
                             + 128 * B2N(m.apu.status.frame_irq),
                         !.apu.status.frame_irq = FALSE]
          [] a = 16405 /\ ~rd ->
               [m EXCEPT !.apu.status.pulse_enable = <<TestBit(data, 0), TestBit(data, 1)>>,
                         !.apu.status.triangle_enable = TestBit(data, 2),
                         !.apu.status.noise_enable = TestBit(data, 3),
                         !.apu.status.dmc_irq = FALSE,
                         !.apu.dmc.bytes_remaining =
                             IF TestBit(data, 4) THEN m.apu.dmc.length ELSE 0,
                         !.apu.dmc.byte_offset = IF TestBit(data, 4) THEN 0 ELSE @]
          [] a = 16407 /\ ~rd ->
               [m EXCEPT !.apu.frame_counter.mode = TestBit(data, 7),
                         !.apu.frame_counter.irq_disable = TestBit(data, 6),
                         !.apu.frame_counter.step = 0,
                         !.apu.frame_counter.cycles_until_step = 0]
          [] OTHER -> m

assert_irqs(m) ==
    [m EXCEPT !.cpu_bus.irq = @ \/ m.apu.status.dmc_irq \/ m.apu.status.frame_irq]

Apu_cycle(m) ==
    tick_counters(assert_irqs(Apu_handle_cpu(update_dmc(Apu_perform_dma(
        tick_frame_counter(update_sound_channels(produce_sample(m))))))))

(* The PPU, src/ppu.rs: the dot counter, the vblank flag, the CPU-facing    *)
(* registers and the background and sprite pipeline, which runs only while  *)
(* mask.render_enabled().                                                   *)

DOTS == 341

LINES == 262

Meta_init ==
    [x |-> 0, w |-> FALSE, odd_frame |-> FALSE, sprite_overflow |-> FALSE,
     sprite_zero_hit |-> FALSE, vblank |-> FALSE, read_pending |-> FALSE,
     write_pending |-> FALSE, data_latch_update_pending |-> FALSE]

Shifters_init ==
    [pattern |-> <<0, 0>>, palette |-> <<0, 0>>, attribute |-> <<FALSE, FALSE>>,
     next_name |-> 0, next_attribute |-> <<FALSE, FALSE>>, next_pattern_low |-> 0]

Sprite_default ==
    [present |-> FALSE, x |-> 0, sprite_zero |-> FALSE, priority |-> FALSE,
     tile |-> 0, y_offset |-> 0, hor_flip |-> FALSE, pattern |-> <<0, 0>>,
     palette |-> 0]

Sprites_init ==
    [sprites |-> [j \in 0 .. 7 |-> Sprite_default], fetch_index |-> 0, eval_index |-> 0]

Ppu_init ==
    [meta |-> Meta_init, control |-> 0, mask |-> 0, v |-> 0, t |-> 0,
     dot |-> <<0, 0>>, data_latch |-> 0, oam_addr |-> 0, oam |-> EmptyMem,
     palette |-> EmptyMem, shifters |-> Shifters_init, sprites |-> Sprites_init]

\* The status byte without the vblank flag.
status_bits_no_vblank(meta) ==
    32 * B2N(meta.sprite_overflow) + 64 * B2N(meta.sprite_zero_hit)

status_bits(meta) ==
    32 * B2N(meta.sprite_overflow) + 64 * B2N(meta.sprite_zero_hit)
    + 128 * B2N(meta.vblank)

nmi_enable(control) == TestBit(control, 7)

inc_amount(control) == IF TestBit(control, 2) THEN 32 ELSE 1

render_enabled(mask) == TestBit(mask, 3) \/ TestBit(mask, 4)

\* The V setters: replace the bit field of the given width at the given shift.
SetField(v, shift, width, val) ==
    v - ((v \div Pow2(shift)) % Pow2(width)) * Pow2(shift)
      + (val % Pow2(width)) * Pow2(shift)

set_coarse_x(v, coarse_x) == SetField(v, 0, 5, coarse_x)

\* Coarse Y placed one bit too high.
set_coarse_y_shifted(v, coarse_y) == SetField(v, 6, 5, coarse_y)

set_coarse_y(v, coarse_y) == SetField(v, 5, 5, coarse_y)

set_nametable(v, nametable) == SetField(v, 10, 2, nametable)

set_fine_y(v, fine_y) == SetField(v, 12, 3, fine_y)

is_palette_address(addr) == addr >= 16128 /\ addr < 16384

normalize_palette_address(addr) ==
    LET a == addr % 32
    IN  IF a \in {16, 20, 24, 28} THEN a - 16 ELSE a

\* The read buffer loaded before the read it waits for has been made.
update_data_latch_early(m) ==
    IF ~m.ppu.meta.data_latch_update_pending
    THEN m
    ELSE [m EXCEPT !.ppu.data_latch = m.ppu_bus.data,
                   !.ppu.meta.data_latch_update_pending = FALSE]

update_data_latch(m) ==
    IF ~m.ppu.meta.data_latch_update_pending \/ m.ppu.meta.read_pending
    THEN m
    ELSE [m EXCEPT !.ppu.data_latch = m.ppu_bus.data,
                   !.ppu.meta.data_latch_update_pending = FALSE]

perform_memop(m) ==
    [m EXCEPT !.ppu_bus.read_enable = m.ppu.meta.read_pending,
              !.ppu_bus.write_enable = m.ppu.meta.write_pending,
              !.ppu.meta.read_pending = FALSE,
              !.ppu.meta.write_pending = FALSE]

Ppu_read(m, addr) ==
    [m EXCEPT !.ppu.meta.read_pending = TRUE, !.ppu_bus.address = addr]

Ppu_write(m, addr, val) ==
    [m EXCEPT !.ppu.meta.write_pending = TRUE, !.ppu_bus.address = addr,
              !.ppu_bus.data = val]

(* The V register's fields and moves. *)

coarse_x(v) == v % 32

coarse_y(v) == (v \div 32) % 32

fine_y(v) == (v \div 4096) % 8

tile_address(v) == 8192 + (v % 4096)

attribute_address(v) ==
    9152 + ((v \div 1024) % 4) * 1024 + ((v \div 128) % 8) * 8 + ((v \div 4) % 8)

extract_attribute(v, byte) ==
    LET shift == (IF (coarse_x(v) % 4) >= 2 THEN 2 ELSE 0)
                 + (IF (coarse_y(v) % 4) >= 2 THEN 4 ELSE 0)
        bits == (byte \div Pow2(shift)) % 4
    IN  <<bits % 2 = 1, bits >= 2>>

increment_x(v) ==
    IF coarse_x(v) = 31 THEN XorN(set_coarse_x(v, 0), 1024, 16) ELSE (v + 1) % 65536

increment_y(v) ==
    IF fine_y(v) < 7 THEN set_fine_y(v, fine_y(v) + 1)
    ELSE LET w == set_fine_y(v, 0)
         IN  IF coarse_y(w) = 29 THEN XorN(set_coarse_y(w, 0), 2048, 16)
             ELSE IF coarse_y(w) = 31 THEN set_coarse_y(w, 0)
             ELSE set_coarse_y(w, coarse_y(w) + 1)

\* Coarse X and the horizontal nametable bit from t.
copy_horizontal_bits(v, t) == SetField(SetField(v, 0, 5, t % 32), 10, 1, t \div 1024)

\* Everything but coarse X and the horizontal nametable bit from t.
copy_vertical_bits(v, t) == SetField(SetField(t, 0, 5, v % 32), 10, 1, v \div 1024)

(* The background shifters. *)

Shifters_pattern_address(sh, table, fy) ==
    (IF table THEN 4096 ELSE 0) + sh.next_name * 16 + fy

Shifters_pattern(sh, fine_x) ==
    (IF TestBit(sh.pattern[1], 15 - fine_x) THEN 1 ELSE 0)
    + (IF TestBit(sh.pattern[2], 15 - fine_x) THEN 2 ELSE 0)

Shifters_shift(sh) ==
    [sh EXCEPT !.pattern = <<(2 * @[1]) % 65536, (2 * @[2]) % 65536>>,
               !.palette = <<((2 * @[1]) % 256) + B2N(sh.attribute[1]),
                             ((2 * @[2]) % 256) + B2N(sh.attribute[2])>>]

Shifters_shift_in_tile(sh, pattern_high) ==
    [sh EXCEPT !.pattern = <<Or16(@[1], sh.next_pattern_low), Or16(@[2], pattern_high)>>,
               !.attribute = sh.next_attribute]

(* The fetched sprites.  Indexing the array of eight past its end panics. *)

Sprites_pattern_low_address(m, table) ==
    LET i == m.ppu.sprites.fetch_index
    IN  IF i > 7 THEN None
        ELSE (IF table THEN 4096 ELSE 0) + m.ppu.sprites.sprites[i].tile * 16
             + m.ppu.sprites.sprites[i].y_offset

Sprites_fetch_low_pattern(m, pattern) ==
    LET i == m.ppu.sprites.fetch_index
    IN  IF i > 7 THEN [m EXCEPT !.p = TRUE]
        ELSE [m EXCEPT !.ppu.sprites.sprites[i].pattern[1] =
                           IF m.ppu.sprites.sprites[i].present THEN pattern ELSE 0]

Sprites_fetch_high_pattern(m, pattern) ==
    LET i == m.ppu.sprites.fetch_index
    IN  IF i > 7 THEN [m EXCEPT !.p = TRUE]
        ELSE [m EXCEPT !.ppu.sprites.sprites[i].pattern[2] =
                           IF m.ppu.sprites.sprites[i].present THEN pattern ELSE 0]

Sprites_next_fetch(m) ==
    IF m.ppu.sprites.fetch_index = 255 THEN [m EXCEPT !.p = TRUE]
    ELSE [m EXCEPT !.ppu.sprites.fetch_index = @ + 1]

(* Sprite evaluation.  sprite is the offset of the entry's first byte in   *)
(* OAM.                                                                    *)

evaluate_sprite(m, sprite) ==
    LET y == Get(m.ppu.oam, sprite)
        tile == Get(m.ppu.oam, sprite + 1)
        flags == Get(m.ppu.oam, sprite + 2)
        x == Get(m.ppu.oam, sprite + 3)
        line == m.ppu.dot[2]
        ver_flip == TestBit(flags, 7)
        y_offset == line - y
        i == m.ppu.sprites.eval_index
    IN  IF i >= 8 THEN [m EXCEPT !.ppu.meta.sprite_overflow = TRUE]
        ELSE IF ~(y <= line /\ line < y + 8) THEN m
        ELSE [m EXCEPT
                !.ppu.sprites.sprites[i] =
                    [present |-> TRUE, x |-> x, sprite_zero |-> sprite = 0,
                     priority |-> ~TestBit(flags, 5), tile |-> tile,
                     y_offset |-> IF ver_flip THEN 7 - y_offset ELSE y_offset,
                     hor_flip |-> TestBit(flags, 6), pattern |-> <<0, 0>>,
                     palette |-> flags % 4],
                !.ppu.sprites.eval_index = i + 1]

RECURSIVE evaluate_from(_, _)
evaluate_from(m, sprite) ==
    IF sprite >= 256 \/ m.ppu.sprites.eval_index > 8 THEN m
    ELSE evaluate_from(evaluate_sprite(m, sprite), sprite + 4)

\* The loop over the 64 entries, then the fill of the entries not used.
evaluate_sprites(m) ==
    With(evaluate_from([m EXCEPT !.ppu.sprites.eval_index = 0,
                                 !.ppu.sprites.fetch_index = 0], 0),
         LAMBDA scanned :
             With(scanned.ppu.sprites.eval_index,
                  LAMBDA n :
                      [scanned EXCEPT
                         !.ppu.sprites.sprites =
                             [j \in 0 .. 7 |-> IF j >= n THEN Sprite_default ELSE @[j]],
                         !.ppu.sprites.eval_index = IF n < 8 THEN 8 ELSE n]))

(* The pixel multiplexer, as far as the PPU's state goes: the colour       *)
(* written to the frame buffer is left out.                                *)

\* The first present sprite that covers x with a pattern other than 0.
RECURSIVE sprite_pixel_from(_, _, _)
sprite_pixel_from(sprites, x, j) ==
    IF j > 7 THEN [pattern |-> 0, palette |-> 0, zero |-> FALSE, priority |-> FALSE]
    ELSE LET sprite == sprites[j]
             sp_x == sprite.x
             offset == IF ~sprite.hor_flip THEN 7 - (x - sp_x) ELSE x - sp_x
             pattern == (IF TestBit(sprite.pattern[1], offset) THEN 1 ELSE 0)
                        + (IF TestBit(sprite.pattern[2], offset) THEN 2 ELSE 0)
         IN  IF ~sprite.present THEN sprite_pixel_from(sprites, x, j + 1)
             ELSE IF ~(sp_x <= x /\ x < sp_x + 8)
                  THEN sprite_pixel_from(sprites, x, j + 1)
             ELSE IF pattern = 0 THEN sprite_pixel_from(sprites, x, j + 1)
             ELSE [pattern |-> pattern, palette |-> sprite.palette,
                   zero |-> sprite.sprite_zero, priority |-> sprite.priority]

generate_sprite_pixel(m) == sprite_pixel_from(m.ppu.sprites.sprites, m.ppu.dot[1] - 1, 0)

produce_pixel(m) ==
    LET x == m.ppu.dot[1] - 1
        mask == m.ppu.mask
        bg_pattern == Shifters_pattern(m.ppu.shifters, m.ppu.meta.x)
        bg_opague == bg_pattern # 0 /\ TestBit(mask, 3) /\ (x >= 8 \/ TestBit(mask, 1))
    IN  With(generate_sprite_pixel(m),
             LAMBDA sp :
                 IF /\ bg_opague
                    /\ sp.pattern # 0 /\ TestBit(mask, 4) /\ (x >= 8 \/ TestBit(mask, 2))
                    /\ sp.zero
                 THEN [m EXCEPT !.ppu.meta.sprite_zero_hit = TRUE]
                 ELSE m)

(* The memory fetches of a line. *)

fetch_background(m, step) ==
    LET v == m.ppu.v
        table == TestBit(m.ppu.control, 4)
    IN  CASE step = 0 -> Ppu_read(m, tile_address(v))
          [] step = 2 ->
               Ppu_read([m EXCEPT !.ppu.shifters.next_name = m.ppu_bus.data],
                        attribute_address(v))
          [] step = 4 ->
               With([m EXCEPT !.ppu.shifters.next_attribute =
                                  extract_attribute(v, m.ppu_bus.data)],
                    LAMBDA m1 :
                        Ppu_read(m1, Shifters_pattern_address(m1.ppu.shifters, table,
                                                              fine_y(v))))
          [] step = 6 ->
               Ppu_read([m EXCEPT !.ppu.shifters.next_pattern_low = m.ppu_bus.data],
                        Shifters_pattern_address(m.ppu.shifters, table, fine_y(v)) + 8)
          [] OTHER -> m

fetch_sprites(m) ==
    LET d == m.ppu.dot[1]
        step == (d - 257) % 8
        table == TestBit(m.ppu.control, 3)
    IN  CASE step = 0 ->
               With(IF d # 257
                    THEN Sprites_next_fetch(Sprites_fetch_high_pattern(m, m.ppu_bus.data))
                    ELSE m,
                    LAMBDA m1 :
                        IF d # 321 THEN Ppu_read(m1, tile_address(m1.ppu.v)) ELSE m1)
          [] step = 2 -> Ppu_read(m, attribute_address(m.ppu.v))
          [] step = 4 ->
               IF Sprites_pattern_low_address(m, table) = None THEN [m EXCEPT !.p = TRUE]
               ELSE Ppu_read(m, Sprites_pattern_low_address(m, table))
          [] step = 6 ->
               With(Sprites_fetch_low_pattern(m, m.ppu_bus.data),
                    LAMBDA m1 :
                        IF Sprites_pattern_low_address(m1, table) = None
                        THEN [m1 EXCEPT !.p = TRUE]
                        ELSE Ppu_read(m1, Sprites_pattern_low_address(m1, table) + 8))
          [] OTHER -> m

prefetch_tiles(m) ==
    LET d == m.ppu.dot[1]
        step == (d - 321) % 8
    IN  With([m EXCEPT !.ppu.shifters = Shifters_shift(@)],
             LAMBDA m1 :
                 With(IF step = 0 /\ d # 321
                      THEN [m1 EXCEPT
                              !.ppu.shifters = Shifters_shift_in_tile(@, m.ppu_bus.data),
                              !.ppu.v = increment_x(@)]
                      ELSE m1,
                      LAMBDA m2 : IF d = 337 THEN m2 ELSE fetch_background(m2, step)))

visible_scanline(m, prerender) ==
    LET d == m.ppu.dot[1]
        x == d - 1
        step == x % 8
    IN  IF d >= 1 /\ d <= 256
        THEN With(IF x # 0 THEN [m EXCEPT !.ppu.shifters = Shifters_shift(@)] ELSE m,
             LAMBDA m1 :
             With(IF step = 0 /\ x # 0
                  THEN [m1 EXCEPT
                          !.ppu.shifters = Shifters_shift_in_tile(@, m.ppu_bus.data),
                          !.ppu.v = increment_x(@)]
                  ELSE m1,
             LAMBDA m2 :
             With(fetch_background(m2, step),
             LAMBDA m3 :
             With(IF ~prerender THEN produce_pixel(m3) ELSE m3,
             LAMBDA m4 :
                 IF x = 255 THEN [m4 EXCEPT !.ppu.v = increment_y(@)] ELSE m4))))
        ELSE IF d >= 257 /\ d <= 320
        THEN With(IF d = 257
                  THEN evaluate_sprites(
                           [m EXCEPT !.ppu.v = copy_horizontal_bits(@, m.ppu.t)])
                  ELSE m,
             LAMBDA m1 :
                 fetch_sprites(IF d >= 280 /\ d <= 304 /\ prerender
                               THEN [m1 EXCEPT !.ppu.v = copy_vertical_bits(@, m.ppu.t)]
                               ELSE m1))
        ELSE IF d >= 321 /\ d <= 336
        THEN prefetch_tiles(IF d = 321 THEN fetch_sprites(m) ELSE m)
        ELSE IF d = 337 THEN prefetch_tiles(m)
        ELSE m

render(m) ==
    IF ~render_enabled(m.ppu.mask) \/ m.p THEN m
    ELSE IF m.ppu.dot[2] <= 239 \/ m.ppu.dot[2] = 261
    THEN visible_scanline(m, m.ppu.dot[2] = 261)
    ELSE m

decide_vblank_early(m) ==
    LET m1 == IF m.ppu.dot = <<0, 241>>
              THEN [m EXCEPT !.ppu.meta.vblank = TRUE]
              ELSE IF m.ppu.dot = <<1, 261>>
              THEN [m EXCEPT !.ppu.meta.vblank = FALSE,
                             !.ppu.meta.sprite_zero_hit = FALSE,
                             !.ppu.meta.sprite_overflow = FALSE]
              ELSE m
    IN  [m1 EXCEPT !.cpu_bus.nmi = m1.ppu.meta.vblank /\ nmi_enable(m1.ppu.control)]

decide_vblank(m) ==
    LET m1 == IF m.ppu.dot = <<1, 241>>
              THEN [m EXCEPT !.ppu.meta.vblank = TRUE]
              ELSE IF m.ppu.dot = <<1, 261>>
              THEN [m EXCEPT !.ppu.meta.vblank = FALSE,
                             !.ppu.meta.sprite_zero_hit = FALSE,
                             !.ppu.meta.sprite_overflow = FALSE]
              ELSE m
    IN  [m1 EXCEPT !.cpu_bus.nmi = m1.ppu.meta.vblank /\ nmi_enable(m1.ppu.control)]

tick_counter(m) ==
    LET last == IF m.ppu.meta.odd_frame THEN <<DOTS - 2, LINES - 1>>
                ELSE <<DOTS - 1, LINES - 1>>
        d == m.ppu.dot
    IN  IF d = last
        THEN [m EXCEPT !.ppu.dot = <<0, 0>>, !.ppu.meta.odd_frame = ~@]
        ELSE IF d[1] + 1 = DOTS
        THEN [m EXCEPT !.ppu.dot = <<0, d[2] + 1>>]
        ELSE [m EXCEPT !.ppu.dot = <<d[1] + 1, d[2]>>]

\* Each processed dot is appended to the trace of the current CPU cycle.
common_cycle(m) ==
    With(tick_counter(decide_vblank(render(perform_memop(update_data_latch(m))))),
         LAMBDA r :
             [r EXCEPT !.trace = Append(@,
                [dot |-> m.ppu.dot, shared |-> FALSE,
                 vb_before |-> m.ppu.meta.vblank, vb_after |-> r.ppu.meta.vblank,
                 nmi_before |-> m.cpu_bus.nmi, nmi_after |-> r.cpu_bus.nmi,
                 nmi_enable |-> nmi_enable(m.ppu.control),
                 odd |-> m.ppu.meta.odd_frame,
                 rendering |-> render_enabled(m.ppu.mask)])])

increment_v(m) == [m EXCEPT !.ppu.v = (@ + inc_amount(m.ppu.control)) % 16384]

Ppu_handle_cpu(m) ==
    LET addr == m.cpu_bus.address % 8
        data == m.cpu_bus.data
        rd == m.cpu_bus.read
        v == m.ppu.v
        palette == is_palette_address(v)
        palette_index == normalize_palette_address(v)
    IN  IF ~(m.cpu_bus.address >= 8192 /\ m.cpu_bus.address < 16384) THEN m
        ELSE CASE addr = 0 ->
                    IF rd THEN m
                    ELSE [m EXCEPT !.ppu.t = set_nametable(@, data % 4),
                                   !.ppu.control = data]
               [] addr = 1 -> IF rd THEN m ELSE [m EXCEPT !.ppu.mask = data]
               [] addr = 2 ->
                    IF ~rd THEN m
                    ELSE [m EXCEPT !.cpu_bus.data = status_bits(m.ppu.meta),
                                   !.ppu.meta.w = FALSE,
                                   !.ppu.meta.vblank = FALSE]
               [] addr = 3 -> IF rd THEN m ELSE [m EXCEPT !.ppu.oam_addr = data]
               [] addr = 4 ->
                    IF rd
                    THEN [m EXCEPT !.cpu_bus.data = Get(m.ppu.oam, m.ppu.oam_addr)]
                    ELSE [m EXCEPT !.ppu.oam = Put(@, m.ppu.oam_addr, data),
                                   !.ppu.oam_addr = (@ + 1) % 256]
               [] addr = 5 ->
                    IF rd THEN m
                    ELSE IF ~m.ppu.meta.w
                    THEN [m EXCEPT !.ppu.meta.x = data % 8,
                                   !.ppu.t = set_coarse_x(@, data \div 8),
                                   !.ppu.meta.w = TRUE]
                    ELSE [m EXCEPT !.ppu.t = set_coarse_y(set_fine_y(@, data % 8), data \div 8),
                                   !.ppu.meta.w = FALSE]
               [] addr = 6 ->
                    IF rd THEN m
                    ELSE IF ~m.ppu.meta.w
                    THEN [m EXCEPT !.ppu.t = (@ % 256) + (data % 64) * 256,
                                   !.ppu.meta.w = TRUE]
                    ELSE [m EXCEPT !.ppu.t = (@ - (@ % 256)) + data,
                                   !.ppu.v = (m.ppu.t - (m.ppu.t % 256)) + data,
                                   !.ppu.meta.w = FALSE]
               [] addr = 7 ->
                    increment_v(
                        IF rd
                        THEN [Ppu_read(m, v) EXCEPT
                                !.ppu.meta.data_latch_update_pending = TRUE,
                                !.cpu_bus.data = IF palette
                                                 THEN Get(m.ppu.palette, palette_index)
                                                 ELSE m.ppu.data_latch]
                        ELSE IF palette
                        THEN [m EXCEPT !.ppu.palette = Put(@, palette_index, data)]
                        ELSE Ppu_write(m, v, data))
               [] OTHER -> [m EXCEPT !.p = TRUE]

Ppu_cycle(m) ==
    With(common_cycle(m),
         LAMBDA c : Ppu_handle_cpu([c EXCEPT !.trace[Len(c.trace)].shared = TRUE]))

cycle_alone(m) == common_cycle(m)

(* The cartridges, src/mapper/mapper0.rs (NROM) and mapper2.rs (UxROM).    *)
(* A rom is the parsed header: mapper number, PRG and CHR sizes, mirroring *)
(* and submapper.  PRG and CHR ROM bytes are a fixed function of the       *)
(* offset into the image; CHR RAM is a memory.                             *)

PrgByte(i) == (i * 7 + (i \div 256) + 1) % 256

ChrByte(i) == (i * 5 + 3) % 256

Mapper0_new(rom) ==
    [kind |-> "Mapper0", prg_len |-> rom.prg_rom_size, chr_len |-> rom.chr_size,
     chr |-> EmptyMem, large_prg |-> rom.prg_rom_size > 16384,
     vertical_mirror |-> rom.vertical_mirroring,
     banks |-> 0, bank |-> 0, bank_conflicts |-> FALSE]

Mapper2_new(rom) ==
    [kind |-> "Mapper2", prg_len |-> rom.prg_rom_size, chr_len |-> rom.chr_size,
     chr |-> EmptyMem, large_prg |-> FALSE,
     vertical_mirror |-> rom.vertical_mirroring,
     banks |-> (rom.prg_rom_size \div 16384) % 256, bank |-> 0,
     bank_conflicts |-> rom.submapper = 2]

\* Indexing prg or chr past its length panics; the byte read is then moot.
Mapper0_handle_cpu(m) ==
    LET a == m.cpu_bus.address % 32768
        addr == IF m.mapper.large_prg THEN a ELSE a % 16384
    IN  IF m.cpu_bus.address < 32768 \/ ~m.cpu_bus.read THEN m
        ELSE IF addr >= m.mapper.prg_len THEN [m EXCEPT !.p = TRUE]
        ELSE [m EXCEPT !.cpu_bus.data = PrgByte(addr)]

\* VRAM_A10 taken from address bit 10 whatever the mirroring.
Mapper0_handle_ppu_bit10(m) ==
    LET a == m.ppu_bus.address
        m1 == IF a < 8192 /\ m.ppu_bus.read_enable
              THEN (IF a >= m.mapper.chr_len THEN [m EXCEPT !.p = TRUE]
                    ELSE [m EXCEPT !.ppu_bus.data = ChrByte(a)])
              ELSE m
    IN  [m1 EXCEPT !.mapper_bus.vram_a10 = TestBit(a, 10),
                   !.mapper_bus.vram_enable = a >= 8192 /\ a < 12288]

Mapper0_handle_ppu(m) ==
    LET a == m.ppu_bus.address
        m1 == IF a < 8192 /\ m.ppu_bus.read_enable
              THEN (IF a >= m.mapper.chr_len THEN [m EXCEPT !.p = TRUE]
                    ELSE [m EXCEPT !.ppu_bus.data = ChrByte(a)])
              ELSE m
    IN  [m1 EXCEPT !.mapper_bus.vram_a10 =
                       IF m.mapper.vertical_mirror THEN TestBit(a, 10) ELSE TestBit(a, 11),
                   !.mapper_bus.vram_enable = a >= 8192 /\ a < 12288]

\* banks - 1 is a checked u8 subtraction: the result is -1 when banks = 0.
prg_rom_address(mp, addr) ==
    LET high == addr > 49152
        bank == IF high THEN mp.banks - 1 ELSE mp.bank
    IN  IF bank < 0 THEN -1 ELSE OrN(bank * 16384, addr % 16384, 24)

Mapper2_handle_cpu(m) ==
    LET addr == prg_rom_address(m.mapper, m.cpu_bus.address)
        bad == addr < 0 \/ addr >= m.mapper.prg_len
    IN  IF m.cpu_bus.address < 32768 THEN m
        ELSE IF m.cpu_bus.read
        THEN (IF bad THEN [m EXCEPT !.p = TRUE]
              ELSE [m EXCEPT !.cpu_bus.data = PrgByte(addr)])
        ELSE IF m.mapper.bank_conflicts
        THEN (IF bad THEN [m EXCEPT !.p = TRUE]
              ELSE [m EXCEPT !.mapper.bank = And8(PrgByte(addr), m.cpu_bus.data)])
        ELSE [m EXCEPT !.mapper.bank = m.cpu_bus.data]

Mapper2_handle_ppu(m) ==
    LET a == m.ppu_bus.address
        bad == a < 8192 /\ a >= m.mapper.chr_len
              /\ (m.ppu_bus.read_enable \/ m.ppu_bus.write_enable)
        m1 == IF a < 8192 /\ ~bad /\ m.ppu_bus.read_enable
              THEN [m EXCEPT !.ppu_bus.data = Get(m.mapper.chr, a)]
              ELSE m
        m2 == IF a < 8192 /\ ~bad /\ m.ppu_bus.write_enable
              THEN [m1 EXCEPT !.mapper.chr = Put(@, a, m1.ppu_bus.data)]
              ELSE m1
    IN  [m2 EXCEPT !.p = @ \/ bad,
                   !.mapper_bus.vram_a10 =
                       IF m.mapper.vertical_mirror THEN TestBit(a, 10) ELSE TestBit(a, 11),
                   !.mapper_bus.vram_enable = a >= 8192 /\ a < 12288]

Mapper_cycle(m) ==
    IF m.mapper.kind = "Mapper0"
    THEN Mapper0_handle_ppu(Mapper0_handle_cpu(m))
    ELSE Mapper2_handle_ppu(Mapper2_handle_cpu(m))

Mapper_cycle_with_ppu(m) ==
    IF m.mapper.kind = "Mapper0" THEN Mapper0_handle_ppu(m) ELSE Mapper2_handle_ppu(m)

(* The controller ports, src/input.rs. *)

Input_init == [controllers |-> <<0, 0>>, indices |-> <<0, 0>>, strobe |-> FALSE]

strobe(m) == IF m.input.strobe THEN [m EXCEPT !.input.indices = <<0, 0>>] ELSE m

\* One read counter for both ports.
Input_handle_cpu_shared(m) ==
    LET a == m.cpu_bus.address
        port == (a % 2) + 1
        index == m.input.indices[port]
    IN  IF ~m.cpu_bus.read
        THEN (IF a # 16406 THEN m
              ELSE [m EXCEPT !.input.strobe = TestBit(m.cpu_bus.data, 0)])
        ELSE IF a # 16406 /\ a # 16407 THEN m
        ELSE IF index >= 8 THEN [m EXCEPT !.cpu_bus.data = 65]
        ELSE [m EXCEPT !.cpu_bus.data =
                           IF TestBit(m.input.controllers[port], index) THEN 65 ELSE 64,
                       !.input.indices = <<index + 1, index + 1>>]

Input_handle_cpu(m) ==
    LET a == m.cpu_bus.address
        port == (a % 2) + 1
        index == m.input.indices[port]
    IN  IF ~m.cpu_bus.read
        THEN (IF a # 16406 THEN m
              ELSE [m EXCEPT !.input.strobe = TestBit(m.cpu_bus.data, 0)])
        ELSE IF a # 16406 /\ a # 16407 THEN m
        ELSE IF index >= 8 THEN [m EXCEPT !.cpu_bus.data = 65]
        ELSE [m EXCEPT !.cpu_bus.data =
                           IF TestBit(m.input.controllers[port], index) THEN 65 ELSE 64,
                       !.input.indices[port] = index + 1]

Input_cycle(m) == Input_handle_cpu(strobe(m))

(* The bus, src/nesbus.rs. *)

\* The work RAM answering every address, modulo its size.
update_ram_any(m) ==
    LET addr == m.cpu_bus.address % 2048
    IN  IF m.cpu_bus.read THEN [m EXCEPT !.cpu_bus.data = Get(m.ram, addr)]
        ELSE [m EXCEPT !.ram = Put(@, addr, m.cpu_bus.data)]

update_ram(m) ==
    LET addr == m.cpu_bus.address
    IN  IF addr >= 2048 THEN m
        ELSE IF m.cpu_bus.read THEN [m EXCEPT !.cpu_bus.data = Get(m.ram, addr)]
        ELSE [m EXCEPT !.ram = Put(@, addr, m.cpu_bus.data)]

update_vram(m) ==
    LET a == m.ppu_bus.address % 2048
        addr == (a - (IF TestBit(a, 10) THEN 1024 ELSE 0))
                + (IF m.mapper_bus.vram_a10 THEN 1024 ELSE 0)
        m1 == IF m.ppu_bus.read_enable
              THEN [m EXCEPT !.ppu_bus.data = Get(m.vram, addr)]
              ELSE m
    IN  IF ~m.mapper_bus.vram_enable THEN m
        ELSE IF m.ppu_bus.write_enable
        THEN [m1 EXCEPT !.vram = Put(@, addr, m1.ppu_bus.data)]
        ELSE m1

cpu_cycle(m) ==
    update_vram(update_ram(Input_cycle(Mapper_cycle(Ppu_cycle(Apu_cycle(m))))))

ppu_cycle(m) == update_vram(Mapper_cycle_with_ppu(cycle_alone(m)))

NesBus_cycle(m) ==
    [ppu_cycle(ppu_cycle(cpu_cycle([m EXCEPT !.cpu_bus.irq = FALSE, !.trace = <<>>])))
        EXCEPT !.cycle = @ + 1]

Bus_read(m, addr, sync, halt) ==
    NesBus_cycle([m EXCEPT !.cpu_bus.sync = sync, !.cpu_bus.halt = halt,
                           !.cpu_bus.address = addr, !.cpu_bus.read = TRUE])

Bus_write(m, addr, data) ==
    NesBus_cycle([m EXCEPT !.cpu_bus.address = addr, !.cpu_bus.data = data,
                           !.cpu_bus.sync = FALSE, !.cpu_bus.halt = FALSE,
                           !.cpu_bus.read = FALSE])

NesBus_new(mapper) ==
    [cycle |-> 0, cpu_bus |-> CpuBus_init, ppu_bus |-> PpuBus_init,
     mapper_bus |-> MapperBus_init, apu |-> Apu_init, ppu |-> Ppu_init,
     mapper |-> mapper, input |-> Input_init, ram |-> EmptyMem, vram |-> EmptyMem,
     p |-> FALSE, trace |-> <<>>]

----------------------------------------------------------------------------
(* The processor side of the bus: one Bus::read or Bus::write per cycle.   *)
(* A read that comes back with NOT_READY set was halted, and the processor *)
(* repeats it with HALT asserted on the next cycle.                        *)

NromRom ==
    [prg_rom_size |-> 32768, chr_size |-> 8192, vertical_mirroring |-> FALSE,
     submapper |-> 0]

UxRom ==
    [prg_rom_size |-> 32768, chr_size |-> 8192, vertical_mirroring |-> TRUE,
     submapper |-> 0]

\* What a processor read of addr returns from RAM or from NROM PRG.
MemAt(m, addr) ==
    IF addr < 2048 THEN Get(m.ram, addr) ELSE PrgByte(addr % 32768)

NoDma ==
    [started |-> FALSE, active |-> FALSE, put |-> FALSE, cyc |-> 0, page |-> 0,
     halted |-> 0, writes |-> 0, paired |-> TRUE, dmc |-> FALSE]

Drv_init ==
    [n |-> 0, retry |-> FALSE, addr |-> 0, dma |-> NoDma,
     read |-> FALSE, last |-> 0, ram |-> <<>>]

\* The bookkeeping of a transaction op = [read, addr, data] that took the
\* machine from pre to post: read and addr are the transaction's, last is
\* the byte the data bus carried in the transaction before it, and ram
\* holds, per RAM cell, the byte last written to an address below $2000
\* that is congruent to it modulo $0800.
DrvObserve(d, pre, post, op) ==
    LET start == ~op.read /\ op.addr = 16404
        stalled == op.read /\ post.cpu_bus.not_ready
        wr2004 == ~post.cpu_bus.read /\ post.cpu_bus.address = 8196
        src == d.dma.page * 256 + d.dma.writes
        good == /\ pre.cpu_bus.read
                /\ pre.cpu_bus.address = src
                /\ pre.cpu_bus.data = MemAt(pre, src)
                /\ post.cpu_bus.data = pre.cpu_bus.data
        dmc == post.apu.dma.dmc_dma # "Idle"
    IN  [n |-> d.n + 1,
         retry |-> stalled,
         addr |-> op.addr,
         read |-> op.read,
         last |-> pre.cpu_bus.data,
         ram |-> IF op.read \/ op.addr >= 8192 THEN d.ram
                 ELSE [a \in DOMAIN d.ram \cup {op.addr % 2048} |->
                         IF a = op.addr % 2048 THEN op.data ELSE d.ram[a]],
         dma |-> IF start
                 THEN [started |-> TRUE, active |-> TRUE,
                       put |-> pre.apu.dma.put_cycle, cyc |-> pre.cycle,
                       page |-> op.data, halted |-> 0, writes |-> 0,
                       paired |-> TRUE, dmc |-> dmc]
                 ELSE IF ~d.dma.active THEN d.dma
                 ELSE IF stalled
                 THEN [d.dma EXCEPT !.halted = @ + 1,
                                    !.writes = @ + B2N(wr2004),
                                    !.paired = @ /\ (wr2004 => good),
                                    !.dmc = @ \/ dmc]
                 ELSE [d.dma EXCEPT !.active = FALSE]]

DrvRead(addr, sync) ==
    \E post \in {Bus_read(nes, addr, sync, drv.retry)} :
        /\ nes' = post
        /\ drv' = DrvObserve(drv, nes, post, [read |-> TRUE, addr |-> addr, data |-> 0])

DrvWrite(addr, data) ==
    \E post \in {Bus_write(nes, addr, data)} :
        /\ ~drv.retry
        /\ nes' = post
        /\ drv' = DrvObserve(drv, nes, post, [read |-> FALSE, addr |-> addr, data |-> data])

----------------------------------------------------------------------------

CpuInit ==
    /\ cpu = Cpu_new
    /\ bus = TraitBus_init
    /\ cpu_panic = FALSE
    /\ env = Env_init
    /\ obs = Obs_init

Init ==
    /\ CpuInit
    /\ nes = NesBus_new(Mapper0_new(NromRom))
    /\ drv = Drv_init

\* One call of Cpu::cycle, after the environment served the bus with a byte
\* of D and drove the READY, NMI, IRQ and RESET lines from R, N, I and Rst.
CpuStepWith(D, R, N, I, Rst) ==
    \E d \in D, rdy \in R, nmi \in N, irq \in I, rst \in Rst :
        LET e == [d |-> d, rdy |-> rdy, nmi |-> nmi, irq |-> irq, rst |-> rst]
            pre == [c |-> cpu, b |-> EnvServe(bus, e), p |-> cpu_panic]
        IN  \E post \in {Cpu_step(pre)} :
                /\ cpu' = post.c
                /\ bus' = post.b
                /\ cpu_panic' = post.p
                /\ env' = e
                /\ obs' = Observe(obs, pre, post)

\* A cycle of a running program with interrupts and DMA stalls.
CpuCycle ==
    /\ obs.n < MaxCpuCycles
    /\ ~cpu_panic
    /\ CpuStepWith(EnvBytes(bus, OpcodeBytes), BOOLEAN, BOOLEAN, BOOLEAN, {FALSE})
    /\ UNCHANGED nesVars

\* A cycle of a program that may jam, with the RESET line driven freely.
CpuCycleReset ==
    /\ obs.n < MaxResetCycles
    /\ ~cpu_panic
    /\ CpuStepWith(EnvBytes(bus, ResetOpcodeBytes), BOOLEAN, {FALSE}, {FALSE}, BOOLEAN)
    /\ UNCHANGED nesVars

NextCpu == CpuCycle

SpecCpu == Init /\ [][NextCpu]_vars

NextCpuReset == CpuCycleReset

SpecCpuReset == Init /\ [][NextCpuReset]_vars

----------------------------------------------------------------------------
(* Arithmetic: programs of LDA #, SEC, SED, ADC # and SBC # run from       *)
(* power-on, with operands drawn from AluOperands.                         *)

MaxAluCycles == 15

\* SEC, ADC #, LDA #, SBC #, SED
AluOpcodeBytes == {56, 105, 169, 233, 248}

AluOperands == {0, 1, 64, 127, 128, 255}

AluBytes(b) ==
    IF b.read /\ ~b.sync /\ b.address \notin 65530..65535
    THEN AluOperands
    ELSE EnvBytes(b, AluOpcodeBytes)

AluCycle ==
    /\ obs.n < MaxAluCycles
    /\ ~cpu_panic
    /\ CpuStepWith(AluBytes(bus), {TRUE}, {FALSE}, {FALSE}, {FALSE})
    /\ UNCHANGED nesVars

NextAlu == AluCycle

SpecAlu == Init /\ [][NextAlu]_vars

----------------------------------------------------------------------------
(* The stack: programs of PHA, PLA, PHP, PLP, JSR, RTS, LDA #, LDX # and   *)
(* TXS run from power-on against a memory that returns in page 1 what was  *)
(* written there.  The environment also keeps the pushes not yet pulled    *)
(* (shadow, forgotten when TXS moves the stack pointer) and the pull whose *)
(* byte the next cycle serves (pull).                                      *)

MaxStackCycles == 17

\* PHP, JSR, PLP, PHA, RTS, PLA, TXS, LDX #, LDA #
StackOpcodeBytes == {8, 32, 40, 72, 96, 104, 154, 162, 169}

StackOperands == {2, 128}

StackPage == 256 .. 511

NoPull == [valid |-> FALSE, data |-> 0, push_sp |-> 0, sp |-> 0]

StackEnv_init ==
    [d |-> 0, rdy |-> TRUE, nmi |-> FALSE, irq |-> FALSE, rst |-> FALSE,
     mem |-> <<>>, shadow |-> <<>>, pull |-> NoPull]

StackBytes(b, mem) ==
    IF b.read /\ b.address \in StackPage
    THEN {IF b.address \in DOMAIN mem THEN mem[b.address] ELSE 0}
    ELSE IF b.read /\ ~b.sync /\ b.address \notin 65530..65535
    THEN StackOperands
    ELSE EnvBytes(b, StackOpcodeBytes)

StackStore(b, mem) ==
    IF b.read THEN mem
    ELSE [a \in DOMAIN mem \cup {b.address} |->
            IF a = b.address THEN b.data ELSE mem[a]]

\* The cycle starting in pre is the one in which the instruction pushes.
IsPush(pre) ==
    /\ ~pre.b.sync
    /\ \/ pre.c.state.opcode \in {"PHA", "PHP"} /\ pre.c.state.opcode_cycles = 1
       \/ pre.c.state.opcode = "JSR" /\ pre.c.state.address_mode_cycles = 2
       \/ pre.c.state.opcode = "JSR" /\ pre.c.state.opcode_cycles = 1

\* The cycle starting in pre is the one in which the instruction pulls.
IsPull(pre) ==
    /\ ~pre.b.sync
    /\ \/ pre.c.state.opcode \in {"PLA", "PLP"} /\ pre.c.state.opcode_cycles = 1
       \/ pre.c.state.opcode = "RTS" /\ pre.c.state.opcode_cycles \in {2, 3}

StackObserve(e, pre, post) ==
    [e EXCEPT
       !.shadow = IF IsPush(pre)
                  THEN Append(@, [sp |-> pre.c.sp, data |-> post.b.data])
                  ELSE IF IsPull(pre) /\ @ # <<>>
                  THEN SubSeq(@, 1, Len(@) - 1)
                  ELSE IF post.c.sp # pre.c.sp
                  THEN <<>>
                  ELSE @,
       !.pull = IF IsPull(pre) /\ e.shadow # <<>>
                THEN [valid |-> TRUE, data |-> e.shadow[Len(e.shadow)].data,
                      push_sp |-> e.shadow[Len(e.shadow)].sp, sp |-> post.c.sp]
                ELSE NoPull]

StackCycle ==
    /\ obs.n < MaxStackCycles
    /\ ~cpu_panic
    /\ \E d \in StackBytes(bus, env.mem) :
         LET e == [env EXCEPT !.d = d, !.mem = StackStore(bus, @)]
             pre == [c |-> cpu, b |-> EnvServe(bus, e), p |-> cpu_panic]
         IN  \E post \in {Cpu_step(pre)} :
                 /\ cpu' = post.c
                 /\ bus' = post.b
                 /\ cpu_panic' = post.p
                 /\ env' = StackObserve(e, pre, post)
                 /\ obs' = Observe(obs, pre, post)
    /\ UNCHANGED nesVars

InitStack ==
    /\ cpu = Cpu_new
    /\ bus = TraitBus_init
    /\ cpu_panic = FALSE
    /\ env = StackEnv_init
    /\ obs = Obs_init
    /\ nes = NesBus_new(Mapper0_new(NromRom))
    /\ drv = Drv_init

NextStack == StackCycle

SpecStack == InitStack /\ [][NextStack]_vars

(* OAM DMA: a program sets up RAM, writes a page number to $4014 once and  *)
(* goes on reading.                                                        *)

SetupCycles == 3

MaxDmaCycles == 524

DmaPages == {2, 128}

SetupWrites == {<<512, 82>>, <<767, 119>>, <<515, 0>>}

DmaSetup ==
    /\ nes.cycle < SetupCycles
    /\ ~nes.p
    /\ ~drv.dma.started
    /\ \/ \E w \in SetupWrites : DrvWrite(w[1], w[2])
       \/ DrvRead(512, FALSE)
    /\ UNCHANGED cpuVars

DmaStart ==
    /\ nes.cycle <= SetupCycles
    /\ ~nes.p
    /\ ~drv.dma.started
    /\ \E page \in DmaPages : DrvWrite(16404, page)
    /\ UNCHANGED cpuVars

DmaRun ==
    /\ nes.cycle < MaxDmaCycles
    /\ ~nes.p
    /\ drv.dma.started
    /\ \E a \in (IF drv.retry THEN {drv.addr} ELSE {767, 32768}) : DrvRead(a, ~drv.retry)
    /\ UNCHANGED cpuVars

NextDma == DmaSetup \/ DmaStart \/ DmaRun

SpecDma == Init /\ [][NextDma]_vars

(* A UxROM cartridge with two PRG banks: a program selects banks and reads. *)

MaxUxCycles == 8

BankValues == {0, 1, 2}

InitUx ==
    /\ CpuInit
    /\ nes = NesBus_new(Mapper2_new(UxRom))
    /\ drv = Drv_init

UxSelect ==
    /\ nes.cycle < MaxUxCycles
    /\ ~nes.p
    /\ \E b \in BankValues, a \in {32768, 65535} : DrvWrite(a, b)
    /\ UNCHANGED cpuVars

UxRead ==
    /\ nes.cycle < MaxUxCycles
    /\ ~nes.p
    /\ \E a \in {0, 32768, 49152, 49153} : DrvRead(a, TRUE)
    /\ UNCHANGED cpuVars

NextUx == UxSelect \/ UxRead

SpecUx == InitUx /\ [][NextUx]_vars

(* Vblank timing: a program idles on RAM reads and, in a few cycles at the  *)
(* start and around the vblank edges, writes PPUCTRL or reads PPUSTATUS.    *)

MaxTimingCycles == 29800

ProbeCycles == (0 .. 2) \cup (27392 .. 27396) \cup (29665 .. 29669)

TimingIdle ==
    /\ nes.cycle < MaxTimingCycles
    /\ ~nes.p
    /\ DrvRead(0, TRUE)
    /\ UNCHANGED cpuVars

TimingProbe ==
    /\ nes.cycle < MaxTimingCycles
    /\ ~nes.p
    /\ nes.cycle \in ProbeCycles
    /\ \/ DrvRead(8194, FALSE)
       \/ \E c \in {0, 128} : DrvWrite(8192, c)
    /\ UNCHANGED cpuVars

NextTiming == TimingIdle \/ TimingProbe

SpecTiming == Init /\ [][NextTiming]_vars

(* Two whole frames of RAM reads and writes. *)

MaxFrameCycles == 59570

FrameRead ==
    /\ nes.cycle < MaxFrameCycles
    /\ ~nes.p
    /\ DrvRead(0, TRUE)
    /\ UNCHANGED cpuVars

FrameWrite ==
    /\ nes.cycle < MaxFrameCycles
    /\ ~nes.p
    /\ DrvWrite(0, 0)
    /\ UNCHANGED cpuVars

NextFrames == FrameRead \/ FrameWrite

SpecFrames == Init /\ [][NextFrames]_vars

(* The APU frame counter: a program may first write $4017, then idles on   *)
(* RAM reads.  The environment counts the CPU cycles since the sequence    *)
(* began, at power-on or at the $4017 write (since), and keeps the values  *)
(* of that count at which the frame counter stepped (steps).               *)

MaxApuCycles == 29840

FrameModes == {0, 64, 128, 192}

InitFrameCounter ==
    /\ cpu = Cpu_new
    /\ bus = TraitBus_init
    /\ cpu_panic = FALSE
    /\ obs = Obs_init
    /\ env = [since |-> 0, steps |-> <<>>]
    /\ nes = NesBus_new(Mapper0_new(NromRom))
    /\ drv = Drv_init

FrameCounterWrite ==
    /\ drv.n = 0
    /\ \E d \in FrameModes : DrvWrite(16407, d)
    /\ env' = [since |-> 0, steps |-> <<>>]
    /\ UNCHANGED <<cpu, bus, cpu_panic, obs>>

FrameCounterIdle ==
    /\ drv.n < MaxApuCycles
    /\ ~nes.p
    /\ DrvRead(0, TRUE)
    /\ env' = [since |-> env.since + 1,
               steps |-> IF nes'.apu.frame_counter.step # nes.apu.frame_counter.step
                         THEN Append(env.steps, env.since + 1) ELSE env.steps]
    /\ UNCHANGED <<cpu, bus, cpu_panic, obs>>

NextFrameCounter == FrameCounterWrite \/ FrameCounterIdle

SpecFrameCounter == InitFrameCounter /\ [][NextFrameCounter]_vars

(* Internal RAM: a program writes and reads addresses of $0000-$1FFF.      *)

MaxRamCycles == 4

RamAddrs == {0, 1, 2047, 2048, 4097, 8191}

RamValues == {17, 171}

RamWrite ==
    /\ nes.cycle < MaxRamCycles
    /\ ~nes.p
    /\ \E a \in RamAddrs, v \in RamValues : DrvWrite(a, v)
    /\ UNCHANGED cpuVars

RamRead ==
    /\ nes.cycle < MaxRamCycles
    /\ ~nes.p
    /\ \E a \in RamAddrs : DrvRead(a, FALSE)
    /\ UNCHANGED cpuVars

NextRam == RamWrite \/ RamRead

SpecRam == Init /\ [][NextRam]_vars

----------------------------------------------------------------------------
(* Open bus: reads and writes of work RAM, PPUCTRL, the DMC rate register  *)
(* and PRG ROM, mixed with reads and writes of addresses that nothing      *)
(* answers: the write-only registers $2000, $2005 and $4000 when read, the *)
(* read-only register $2002 when written, $4018, $5000 and, when written,  *)
(* the ROM of an NROM cartridge.                                           *)

MaxOpenCycles == 4

OpenReadAddrs == {8192, 8197, 16384, 16408, 20480}

OpenWriteAddrs == {8194, 16408, 20480, 32768}

DecodedReadAddrs == {0, 32769}

DecodedWriteAddrs == {0, 8192, 16400}

OpenValues == {17, 171}

OpenWrite ==
    /\ nes.cycle < MaxOpenCycles
    /\ ~nes.p
    /\ \E a \in OpenWriteAddrs \cup DecodedWriteAddrs, v \in OpenValues :
            DrvWrite(a, v)
    /\ UNCHANGED cpuVars

OpenRead ==
    /\ nes.cycle < MaxOpenCycles
    /\ ~nes.p
    /\ \E a \in OpenReadAddrs \cup DecodedReadAddrs : DrvRead(a, FALSE)
    /\ UNCHANGED cpuVars

NextOpen == OpenWrite \/ OpenRead

SpecOpenBus == Init /\ [][NextOpen]_vars

----------------------------------------------------------------------------
(* PPUSTATUS and the scroll registers: the console 27,393 cycles after     *)
(* power-on, at dot 339 of line 240, three dots before the vertical blank  *)
(* begins.  Rendering is off again after the frame was drawn, and the      *)
(* sprite flags are as the frame left them.  The program reads $2002,      *)
(* writes $2005 and $2006, or idles on RAM.                                *)

MaxStatusCycles == 5

StatusValues == {37, 171}

Line240 ==
    LET m == NesBus_new(Mapper0_new(NromRom))
    IN  [m EXCEPT !.cycle = 27393,
                  !.ppu.dot = <<DOTS - 2, 240>>,
                  !.cpu_bus.read = TRUE,
                  !.cpu_bus.sync = TRUE,
                  !.apu.dma.put_cycle = TRUE,
                  !.apu.dmc.cycles_since_last = 3,
                  !.apu.dmc.bits_remaining = 6,
                  !.apu.frame_counter.step = 3,
                  !.apu.frame_counter.cycles_until_step = 5019,
                  !.apu.cycles_since_sample = 5]

InitStatus ==
    /\ CpuInit
    /\ \E so \in BOOLEAN, sz \in BOOLEAN :
            nes = [Line240 EXCEPT !.ppu.meta.sprite_overflow = so,
                                  !.ppu.meta.sprite_zero_hit = sz]
    /\ drv = Drv_init

StatusRead ==
    /\ drv.n < MaxStatusCycles
    /\ ~nes.p
    /\ DrvRead(8194, FALSE)
    /\ UNCHANGED cpuVars

StatusWrite ==
    /\ drv.n < MaxStatusCycles
    /\ ~nes.p
    /\ \E a \in {8197, 8198}, v \in StatusValues : DrvWrite(a, v)
    /\ UNCHANGED cpuVars

StatusIdle ==
    /\ drv.n < MaxStatusCycles
    /\ ~nes.p
    /\ DrvRead(0, TRUE)
    /\ UNCHANGED cpuVars

NextStatus == StatusRead \/ StatusWrite \/ StatusIdle

SpecStatus == InitStatus /\ [][NextStatus]_vars

----------------------------------------------------------------------------
(* The scroll latch: a program writes $2005 and $2006 from power-on.  The  *)
(* environment keeps the writes made so far, each with w, v, t and fine x  *)
(* as the write found them.                                                *)

MaxScrollCycles == 8

ScrollValues == {126, 165}

InitScroll ==
    /\ cpu = Cpu_new
    /\ bus = TraitBus_init
    /\ cpu_panic = FALSE
    /\ obs = Obs_init
    /\ env = <<>>
    /\ nes = NesBus_new(Mapper0_new(NromRom))
    /\ drv = Drv_init

ScrollWrite ==
    /\ drv.n < MaxScrollCycles
    /\ ~nes.p
    /\ \E a \in {8197, 8198}, d \in ScrollValues :
            /\ DrvWrite(a, d)
            /\ env' = Append(env, [addr |-> a, data |-> d, w |-> nes.ppu.meta.w,
                                   v |-> nes.ppu.v, t |-> nes.ppu.t,
                                   x |-> nes.ppu.meta.x])
    /\ UNCHANGED <<cpu, bus, cpu_panic, obs>>

NextScroll == ScrollWrite

SpecScroll == InitScroll /\ [][NextScroll]_vars

----------------------------------------------------------------------------
(* PPU memory through $2006 and $2007, rendering disabled: a program may   *)
(* first choose the increment in PPUCTRL, then sets addresses in the       *)
(* nametables (two $2006 writes), writes bytes to $2007 and reads $2007.   *)
(* The environment keeps the byte last written to each nametable cell      *)
(* (cells), the byte the read buffer holds if a nametable read filled it   *)
(* (buf), and the buffer as the last $2007 read found it (want).           *)

MaxVramCycles == 10

VramAddrBytes == {32, 36}

\* The byte the program writes in its n-th cycle.
VramByte(n) == 17 * (n + 1)

\* The nametable cell a PPU address in $2000-$2FFF selects.
Cell(m, a) ==
    (a % 1024) + (IF TestBit(a, IF m.mapper.vertical_mirror THEN 10 ELSE 11)
                  THEN 1024 ELSE 0)

InVram(a) == a >= 8192 /\ a < 12288

VramEnv_init == [cells |-> <<>>, buf |-> None, want |-> None]

InitVram ==
    /\ cpu = Cpu_new
    /\ bus = TraitBus_init
    /\ cpu_panic = FALSE
    /\ obs = Obs_init
    /\ env = VramEnv_init
    /\ nes = NesBus_new(Mapper0_new(NromRom))
    /\ drv = Drv_init

VramCtrl ==
    /\ drv.n = 0
    /\ DrvWrite(8192, 4)
    /\ UNCHANGED cpuVars

VramAddr ==
    /\ drv.n < MaxVramCycles
    /\ ~nes.p
    /\ \E d \in VramAddrBytes : DrvWrite(8198, d)
    /\ UNCHANGED cpuVars

VramWrite ==
    /\ drv.n < MaxVramCycles
    /\ ~nes.p
    /\ ~nes.ppu.meta.w
    /\ DrvWrite(8199, VramByte(drv.n))
    /\ env' = IF InVram(nes.ppu.v)
              THEN [env EXCEPT !.cells =
                        [c \in DOMAIN @ \cup {Cell(nes, nes.ppu.v)} |->
                            IF c = Cell(nes, nes.ppu.v) THEN VramByte(drv.n)
                            ELSE @[c]]]
              ELSE env
    /\ UNCHANGED <<cpu, bus, cpu_panic, obs>>

VramRead ==
    /\ drv.n < MaxVramCycles
    /\ ~nes.p
    /\ ~nes.ppu.meta.w
    /\ DrvRead(8199, FALSE)
    /\ env' = [env EXCEPT
                !.want = env.buf,
                !.buf = IF InVram(nes.ppu.v) /\ Cell(nes, nes.ppu.v) \in DOMAIN env.cells
                        THEN env.cells[Cell(nes, nes.ppu.v)]
                        ELSE None]
    /\ UNCHANGED <<cpu, bus, cpu_panic, obs>>

NextVram == VramCtrl \/ VramAddr \/ VramWrite \/ VramRead

SpecVram == InitVram /\ [][NextVram]_vars

----------------------------------------------------------------------------
(* Palette space through $2006 and $2007, rendering disabled: a program    *)
(* sets addresses in $2F00-$2FFF and in $3F00-$3FFF, writes bytes to $2007 *)
(* and reads $2007.  Beside cells, buf and want as above the environment   *)
(* keeps the byte last written to each palette entry (pal), and whether    *)
(* the last read and the one before it were made in palette space.         *)

MaxPaletteCycles == 10

PaletteAddrBytes == {47, 63}

\* The nametable address under a palette address, v & 0x2FFF.
UnderPalette(v) == IF TestBit(v, 12) THEN v - 4096 ELSE v

PaletteEnv_init ==
    [cells |-> <<>>, pal |-> <<>>, buf |-> None, want |-> None,
     palette |-> FALSE, after_palette |-> FALSE]

InitPalette ==
    /\ cpu = Cpu_new
    /\ bus = TraitBus_init
    /\ cpu_panic = FALSE
    /\ obs = Obs_init
    /\ env = PaletteEnv_init
    /\ nes = NesBus_new(Mapper0_new(NromRom))
    /\ drv = Drv_init

PaletteAddr ==
    /\ drv.n < MaxPaletteCycles
    /\ ~nes.p
    /\ \E d \in PaletteAddrBytes : DrvWrite(8198, d)
    /\ UNCHANGED cpuVars

PaletteWrite ==
    /\ drv.n < MaxPaletteCycles
    /\ ~nes.p
    /\ ~nes.ppu.meta.w
    /\ DrvWrite(8199, VramByte(drv.n))
    /\ env' = IF InVram(nes.ppu.v)
              THEN [env EXCEPT !.cells =
                        [c \in DOMAIN @ \cup {Cell(nes, nes.ppu.v)} |->
                            IF c = Cell(nes, nes.ppu.v) THEN VramByte(drv.n)
                            ELSE @[c]]]
              ELSE IF is_palette_address(nes.ppu.v)
              THEN [env EXCEPT !.pal =
                        [c \in DOMAIN @ \cup {normalize_palette_address(nes.ppu.v)} |->
                            IF c = normalize_palette_address(nes.ppu.v)
                            THEN VramByte(drv.n) ELSE @[c]]]
              ELSE env
    /\ UNCHANGED <<cpu, bus, cpu_panic, obs>>

PaletteRead ==
    /\ drv.n < MaxPaletteCycles
    /\ ~nes.p
    /\ ~nes.ppu.meta.w
    /\ DrvRead(8199, FALSE)
    /\ LET v == nes.ppu.v
           inpal == is_palette_address(v)
           c == Cell(nes, UnderPalette(v))
       IN  env' = [env EXCEPT
                     !.want = IF inpal
                              THEN (IF normalize_palette_address(v) \in DOMAIN env.pal
                                    THEN env.pal[normalize_palette_address(v)] ELSE 0)
                              ELSE env.buf,
                     !.buf = IF InVram(UnderPalette(v)) /\ c \in DOMAIN env.cells
                             THEN env.cells[c] ELSE None,
                     !.palette = inpal,
                     !.after_palette = env.palette]
    /\ UNCHANGED <<cpu, bus, cpu_panic, obs>>

NextPalette == PaletteAddr \/ PaletteWrite \/ PaletteRead

SpecPalette == InitPalette /\ [][NextPalette]_vars

----------------------------------------------------------------------------
(* Nametable mirroring: NROM and UxROM cartridges with horizontal and with *)
(* vertical mirroring.  A program sets PPU addresses $1000, $2000, $2400,  *)
(* $2800 and $3000 and writes and reads $2007.  The environment keeps the  *)
(* $2007 writes made, each with the address it went to.                    *)

MaxMirrorCycles == 7

MirrorHighBytes == {16, 32, 36, 40, 48}

VerticalRom == [NromRom EXCEPT !.vertical_mirroring = TRUE]

InitMirror ==
    /\ cpu = Cpu_new
    /\ bus = TraitBus_init
    /\ cpu_panic = FALSE
    /\ obs = Obs_init
    /\ env = <<>>
    /\ \E rom \in {NromRom, VerticalRom} :
        \E mapper \in {Mapper0_new(rom), Mapper2_new(rom)} :
            nes = NesBus_new(mapper)
    /\ drv = Drv_init

MirrorAddr ==
    /\ drv.n < MaxMirrorCycles
    /\ ~nes.p
    /\ \E d \in (IF nes.ppu.meta.w THEN {0} ELSE MirrorHighBytes) : DrvWrite(8198, d)
    /\ UNCHANGED cpuVars

MirrorWrite ==
    /\ drv.n < MaxMirrorCycles
    /\ ~nes.p
    /\ ~nes.ppu.meta.w
    /\ DrvWrite(8199, VramByte(drv.n))
    /\ env' = Append(env, [v |-> nes.ppu.v, d |-> VramByte(drv.n)])
    /\ UNCHANGED <<cpu, bus, cpu_panic, obs>>

MirrorRead ==
    /\ drv.n < MaxMirrorCycles
    /\ ~nes.p
    /\ ~nes.ppu.meta.w
    /\ DrvRead(8199, FALSE)
    /\ UNCHANGED cpuVars

NextMirror == MirrorAddr \/ MirrorWrite \/ MirrorRead

SpecMirror == InitMirror /\ [][NextMirror]_vars

----------------------------------------------------------------------------
(* DMC DMA: a program sets the sample length to 17 bytes, may start the    *)
(* DMC by writing $4015 in one of its first cycles, reads and writes RAM,  *)
(* and may start one OAM DMA of page $80 early or around the DMC's second  *)
(* fetch.  The environment keeps, for the DMC fetch in progress, the       *)
(* cycles the processor was stalled (stalls), and for the fetches made so  *)
(* far their number (fetches), the stalls of the last one (done) and       *)
(* whether an OAM DMA was active during it (over); of the OAM DMA it keeps *)
(* the $2004 writes made (writes) and whether each carried the byte read   *)
(* from the next source address (paired).                                  *)

MaxDmcCycles == 585

FreeCycles == 8

OamWindow == 48 .. 56

DmcEnv_init ==
    [stalls |-> 0, fetches |-> 0, done |-> None, over |-> FALSE, with_oam |-> FALSE,
     oam |-> FALSE, writes |-> 0, paired |-> TRUE, src |-> None]

\* src is the byte the OAM DMA read last from its current source address.
DmcObserve(e, pre, post, op) ==
    LET d0 == pre.apu.dma.dmc_dma
        d1 == post.apu.dma.dmc_dma
        o0 == pre.apu.dma.oam_dma
        o1 == post.apu.dma.oam_dma
        stalled == op.read /\ post.cpu_bus.not_ready
        fetching == d0 \in {"Started", "Dummy", "ToRead"}
        oam_active == o0 # "Idle"
        oam_read == o1 = "ToWrite" /\ o0 \in {"Started", "ToRead"}
        oam_write == o0 = "ToWrite" /\ o1 \in {"ToRead", "Idle"}
        i == pre.apu.dma.oam_step
    IN  [stalls |-> IF d0 = "ToReceive" THEN 0
                    ELSE IF fetching /\ stalled THEN e.stalls + 1 ELSE e.stalls,
         fetches |-> IF d0 = "ToReceive" THEN e.fetches + 1 ELSE e.fetches,
         done |-> IF d0 = "ToReceive" THEN e.stalls ELSE e.done,
         with_oam |-> IF d0 = "ToReceive" THEN FALSE
                      ELSE IF fetching THEN e.with_oam \/ oam_active ELSE e.with_oam,
         over |-> IF d0 = "ToReceive" THEN e.with_oam ELSE e.over,
         oam |-> e.oam \/ (~op.read /\ op.addr = 16404),
         src |-> IF oam_read THEN post.cpu_bus.data ELSE e.src,
         writes |-> IF oam_write THEN e.writes + 1 ELSE e.writes,
         paired |-> IF oam_write
                    THEN /\ e.paired
                         /\ post.cpu_bus.data = PrgByte(i)
                         /\ e.src = PrgByte(i)
                         /\ i = e.writes
                         /\ Get(post.ppu.oam, i) = PrgByte(i)
                    ELSE e.paired]

InitDmc ==
    /\ cpu = Cpu_new
    /\ bus = TraitBus_init
    /\ cpu_panic = FALSE
    /\ obs = Obs_init
    /\ env = DmcEnv_init
    /\ nes = NesBus_new(Mapper0_new(NromRom))
    /\ drv = Drv_init

DmcWith(post, op) ==
    /\ nes' = post
    /\ drv' = DrvObserve(drv, nes, post, op)
    /\ env' = DmcObserve(env, nes, post, op)
    /\ UNCHANGED <<cpu, bus, cpu_panic, obs>>

DmcWriteOp(a, d) ==
    /\ ~drv.retry
    /\ DmcWith(Bus_write(nes, a, d), [read |-> FALSE, addr |-> a, data |-> d])

\* The first cycle sets the sample length, the second the sample address.
DmcSetup ==
    /\ nes.cycle < 2
    /\ DmcWriteOp(IF nes.cycle = 0 THEN 16403 ELSE 16402, IF nes.cycle = 0 THEN 1 ELSE 0)

DmcEnable ==
    /\ nes.cycle \in {2, 3}
    /\ nes.apu.dmc.bytes_remaining = 0
    /\ DmcWriteOp(16405, 16)

DmcRamWrite ==
    /\ nes.cycle \in 2 .. FreeCycles
    /\ DmcWriteOp(0, 0)

DmcOamStart ==
    /\ nes.cycle \in (3 .. 5) \cup OamWindow
    /\ ~env.oam
    /\ DmcWriteOp(16404, 128)

DmcRead ==
    /\ nes.cycle \in 2 .. MaxDmcCycles - 1
    /\ ~nes.p
    /\ \E a \in (IF drv.retry THEN {drv.addr} ELSE {0}) :
            DmcWith(Bus_read(nes, a, ~drv.retry, drv.retry),
                    [read |-> TRUE, addr |-> a, data |-> 0])

NextDmc == DmcSetup \/ DmcEnable \/ DmcRamWrite \/ DmcOamStart \/ DmcRead

SpecDmc == InitDmc /\ [][NextDmc]_vars

----------------------------------------------------------------------------
(* The controller ports: a program writes the strobe to $4016 and reads    *)
(* $4016 and $4017 while the driver presses and releases buttons between   *)
(* cycles.  The environment keeps what the ports hold by the spec: the     *)
(* button sets as they were in the last cycle that began with the strobe   *)
(* high (latch), the reads made of each port since then (count), whether   *)
(* a strobe has been set and cleared (valid), and of the last read its     *)
(* port, its number k, the byte the buttons held at the read give (want)   *)
(* and the byte the latch gives (latched).                                 *)

MaxInputCycles == 11

MaxPresses == 1

ButtonSets == {90, 165}

InputEnv_init ==
    [latch |-> <<0, 0>>, count |-> <<0, 0>>, valid |-> FALSE, presses |-> 0,
     port |-> 0, k |-> 0, want |-> None, latched |-> None]

PortByte(buttons, k) ==
    IF k >= 8 THEN 65 ELSE 64 + (IF TestBit(buttons, k) THEN 1 ELSE 0)

InputObserve(e, pre, op) ==
    LET high == pre.input.strobe
        latch == IF high THEN pre.input.controllers ELSE e.latch
        count == IF high THEN <<0, 0>> ELSE e.count
        port == (op.addr % 2) + 1
        k == count[port]
        counts == op.read /\ e.valid /\ ~high
    IN  IF op.addr \notin {16406, 16407} \/ (~op.read /\ op.addr = 16407)
        THEN [e EXCEPT !.latch = latch, !.count = count]
        ELSE IF ~op.read
        THEN [e EXCEPT !.latch = latch, !.count = count,
                       !.valid = high /\ ~TestBit(op.data, 0)]
        ELSE [e EXCEPT !.latch = latch,
                       !.count = [count EXCEPT ![port] = IF k >= 8 THEN 8 ELSE k + 1],
                       !.port = port,
                       !.k = k,
                       !.want = IF counts THEN PortByte(pre.input.controllers[port], k)
                                ELSE None,
                       !.latched = IF counts THEN PortByte(latch[port], k) ELSE None]

InitInput ==
    /\ cpu = Cpu_new
    /\ bus = TraitBus_init
    /\ cpu_panic = FALSE
    /\ obs = Obs_init
    /\ env = InputEnv_init
    /\ nes = NesBus_new(Mapper0_new(NromRom))
    /\ drv = Drv_init

\* Input::controller_mut and the setters of Controller, called by the
\* driver between two cycles.
InputPress ==
    /\ env.presses < MaxPresses
    /\ \E p \in {1, 2}, b \in ButtonSets :
            /\ nes.input.controllers[p] # b
            /\ nes' = [nes EXCEPT !.input.controllers[p] = b]
    /\ env' = [env EXCEPT !.presses = @ + 1]
    /\ UNCHANGED <<cpu, bus, cpu_panic, obs, drv>>

InputStrobe ==
    /\ drv.n < MaxInputCycles
    /\ \E d \in {0, 1} :
            /\ DrvWrite(16406, d)
            /\ env' = InputObserve(env, nes, [read |-> FALSE, addr |-> 16406, data |-> d])
    /\ UNCHANGED <<cpu, bus, cpu_panic, obs>>

InputRead ==
    /\ drv.n < MaxInputCycles
    /\ \E a \in {16406, 16407} :
            /\ DrvRead(a, FALSE)
            /\ env' = InputObserve(env, nes, [read |-> TRUE, addr |-> a, data |-> 0])
    /\ UNCHANGED <<cpu, bus, cpu_panic, obs>>

NextInput == InputPress \/ InputStrobe \/ InputRead

SpecInput == InitInput /\ [][NextInput]_vars

----------------------------------------------------------------------------
(* The decoder applied to every opcode byte in turn: the environment holds *)
(* the next byte, the result for the last one and the operations decoded   *)
(* so far.                                                                 *)

AllOpcodeBytes == 0 .. 255

DecodeEnv_init == [next |-> 0, ins |-> [op |-> "none", mode |-> "none"], seen |-> {}]

InitDecode ==
    /\ cpu = Cpu_new
    /\ bus = TraitBus_init
    /\ cpu_panic = FALSE
    /\ obs = Obs_init
    /\ env = DecodeEnv_init
    /\ nes = NesBus_new(Mapper0_new(NromRom))
    /\ drv = Drv_init

DecodeByte ==
    /\ env.next \in AllOpcodeBytes
    /\ env' = [next |-> env.next + 1,
               ins |-> decode(env.next),
               seen |-> env.seen \cup {decode(env.next).op}]
    /\ UNCHANGED <<cpu, bus, cpu_panic, obs, nes, drv>>

NextDecode == DecodeByte

SpecDecode == InitDecode /\ [][NextDecode]_vars

----------------------------------------------------------------------------
(* Loading a cartridge, src/rom.rs and src/mapper.rs: an image is its      *)
(* length, whether it begins with the magic number, and the header bytes   *)
(* that parsing looks at.  A result is Ok with a value, Err with a RomErr, *)
(* or Panic with the macro that ended the program.                         *)

Ok(v) == [tag |-> "Ok", val |-> v]

Err(e) == [tag |-> "Err", val |-> e]

Panic(why) == [tag |-> "Panic", val |-> why]

calc_size(low, high, unit) ==
    IF high < 15 THEN (low + 256 * high) * unit
    ELSE Pow2(low \div 4) * (2 * (low % 4) + 1)

parse_console_type(b7, b13) ==
    LET lo == b13 % 16
        hi == b13 \div 16
    IN  CASE b7 = 0 -> "Nes"
          [] b7 = 1 -> (IF lo > 12 \/ hi > 6 THEN "unreachable" ELSE "Vs")
          [] b7 = 2 -> "Playchoice"
          [] b7 = 3 -> (IF lo \in 3 .. 12 THEN "Extended" ELSE "unreachable")
          [] OTHER -> "unreachable"

from_ines(n) ==
    CASE n = 0 -> Ok("Nes")
      [] n = 1 -> Ok("Vs")
      [] n = 2 -> Ok("Playchoice")
      [] n = 3 -> Err("WrongINesConsoleType")
      [] OTHER -> Panic("unreachable")

Header_parse(src) ==
    LET is_nes2 == (src.b7 \div 4) % 4 = 2
        mapper == (src.b6 \div 16) + (src.b7 \div 16) * 16
        console_type == src.b7 % 4
        common == [vertical_mirroring |-> src.b6 % 2 = 1,
                   trainer_present |-> (src.b6 \div 4) % 2 = 1]
        ines == from_ines(console_type)
        shift == src.b11 % 16
        nes2_type == parse_console_type(console_type, src.b13)
    IN  IF src.len < 16 THEN Err("HeaderIncomplete")
        ELSE IF ~src.magic THEN Err("WrongMagicNumber")
        ELSE IF ~is_nes2
        THEN (IF ines.tag # "Ok" THEN ines
              ELSE Ok([nes2 |-> FALSE,
                       prg_rom_size |-> src.b4 * 16384,
                       chr_rom_size |-> src.b5 * 8192,
                       chr_ram_size |-> IF src.b5 = 0 THEN 8192 ELSE 0,
                       mapper |-> mapper,
                       submapper |-> 0,
                       vertical_mirroring |-> common.vertical_mirroring,
                       trainer_present |-> common.trainer_present,
                       console_type |-> ines.val]))
        ELSE IF nes2_type = "unreachable" THEN Panic("unreachable")
        ELSE Ok([nes2 |-> TRUE,
                 prg_rom_size |-> calc_size(src.b4, src.b9 % 16, 16384),
                 chr_rom_size |-> calc_size(src.b5, src.b9 \div 16, 8192),
                 chr_ram_size |-> IF shift = 0 THEN 0 ELSE 64 * Pow2(shift),
                 mapper |-> mapper + (src.b8 % 16) * 256,
                 submapper |-> src.b8 \div 16,
                 vertical_mirroring |-> common.vertical_mirroring,
                 trainer_present |-> common.trainer_present,
                 console_type |-> nes2_type])

Rom_parse(src) ==
    LET header == Header_parse(src)
        h == header.val
        trainer_end == 16 + (IF h.trainer_present THEN 512 ELSE 0)
        prg_rom_end == trainer_end + h.prg_rom_size
        chr_rom_end == prg_rom_end + h.chr_rom_size
    IN  IF header.tag # "Ok" THEN header
        ELSE IF trainer_end > src.len THEN Err("TrainerIncomplete")
        ELSE IF prg_rom_end > src.len THEN Err("PrgRomIncomplete")
        ELSE IF chr_rom_end > src.len THEN Err("ChrRomIncomplete")
        ELSE Ok(h)

\* The rom as the mappers see it: Mapper0 keeps the CHR ROM, Mapper2 a CHR
\* RAM of the header's size.
RomOf(h, chr) ==
    [prg_rom_size |-> h.prg_rom_size, chr_size |-> chr,
     vertical_mirroring |-> h.vertical_mirroring, submapper |-> h.submapper]

get_mapper(h) ==
    CASE h.mapper = 0 -> Ok(Mapper0_new(RomOf(h, h.chr_rom_size)))
      [] h.mapper = 2 -> Ok(Mapper2_new(RomOf(h, h.chr_ram_size)))
      [] OTHER -> Panic("unimplemented")

\* Rom::parse(&src).unwrap() followed by get_mapper, with the error of
\* parse kept as a value.
LoadCartridge(src) ==
    LET rom == Rom_parse(src)
    IN  IF rom.tag # "Ok" THEN rom ELSE get_mapper(rom.val)

ImageLengths == {8, 16, 528, 16400, 24592, 25104}

Images ==
    [len : ImageLengths, magic : BOOLEAN, b4 : {1}, b5 : {0, 1},
     b6 : {0, 4, 16, 32, 33}, b7 : {0, 3, 8, 9, 11, 16}, b8 : {0, 1},
     b9 : {0}, b11 : {0, 7}, b13 : {0, 3, 13, 112}]

InitLoad ==
    /\ cpu = Cpu_new
    /\ bus = TraitBus_init
    /\ cpu_panic = FALSE
    /\ obs = Obs_init
    /\ \E src \in Images : env = [loaded |-> FALSE, src |-> src]
    /\ nes = NesBus_new(Mapper0_new(NromRom))
    /\ drv = Drv_init

Load ==
    /\ ~env.loaded
    /\ env' = [loaded |-> TRUE, src |-> env.src, header |-> Header_parse(env.src),
               rom |-> Rom_parse(env.src), result |-> LoadCartridge(env.src)]
    /\ UNCHANGED <<cpu, bus, cpu_panic, obs, nes, drv>>

NextLoad == Load

SpecLoad == InitLoad /\ [][NextLoad]_vars

----------------------------------------------------------------------------
(* Read-modify-write: programs of ASL, ROL and INC on the zero page, DEC   *)
(* zero page,X, ROR absolute, LSR A and INX run from power-on.  The        *)
(* environment keeps the bus transactions of the instruction in progress   *)
(* (cur, from its opcode fetch on) with the carry and X it began with, and *)
(* those of the last instruction that ended (last).                        *)

MaxRmwCycles == 20

\* ASL zp, ROL zp, LSR A, ROR abs, DEC zp,X, INC zp, INX
RmwOpcodeBytes == {6, 38, 74, 110, 214, 230, 232}

RmwOperands == {1, 128, 255}

NoInstr == [txs |-> <<>>, carry |-> FALSE, x |-> 0]

RmwEnv_init ==
    [d |-> 0, rdy |-> TRUE, nmi |-> FALSE, irq |-> FALSE, rst |-> FALSE,
     cur |-> NoInstr, last |-> NoInstr]

RmwBytes(b) ==
    IF b.read /\ ~b.sync /\ b.address \notin 65530..65535
    THEN RmwOperands
    ELSE EnvBytes(b, RmwOpcodeBytes)

\* pre.b is the transaction that the cycle starting in pre completes.
RmwObserve(e, pre) ==
    LET tx == [read |-> pre.b.read, address |-> pre.b.address, data |-> pre.b.data]
    IN  IF pre.b.sync /\ pre.b.read
        THEN [e EXCEPT !.last = e.cur,
                       !.cur = [txs |-> <<tx>>, carry |-> pre.c.flags.carry, x |-> pre.c.x]]
        ELSE IF e.cur.txs = <<>> THEN e
        ELSE [e EXCEPT !.cur.txs = Append(@, tx)]

RmwCycle ==
    /\ obs.n < MaxRmwCycles
    /\ ~cpu_panic
    /\ \E d \in RmwBytes(bus) :
         LET e == [env EXCEPT !.d = d]
             pre == [c |-> cpu, b |-> EnvServe(bus, e), p |-> cpu_panic]
         IN  \E post \in {Cpu_step(pre)} :
                 /\ cpu' = post.c
                 /\ bus' = post.b
                 /\ cpu_panic' = post.p
                 /\ env' = RmwObserve(e, pre)
                 /\ obs' = Observe(obs, pre, post)
    /\ UNCHANGED nesVars

InitRmw ==
    /\ cpu = Cpu_new
    /\ bus = TraitBus_init
    /\ cpu_panic = FALSE
    /\ env = RmwEnv_init
    /\ obs = Obs_init
    /\ nes = NesBus_new(Mapper0_new(NromRom))
    /\ drv = Drv_init

NextRmw == RmwCycle

SpecRmw == InitRmw /\ [][NextRmw]_vars

----------------------------------------------------------------------------
(* Branches: programs of BCC, BCS, BNE, BEQ, CLC and SEC run from power-on *)
(* with displacements drawn from BranchOffsets.  The environment keeps the *)
(* bus transactions of the instruction in progress (cur, from its opcode   *)
(* fetch on) with the flags it began with, and those of the last           *)
(* instruction that ended (last).                                          *)

MaxBranchCycles == 17

\* CLC, SEC, BCC, BCS, BNE, BEQ
BranchOpcodeBytes == {24, 56, 144, 176, 208, 240}

\* +2, +127, -128, -3
BranchOffsets == {2, 127, 128, 253}

NoBranch == [txs |-> <<>>, carry |-> FALSE, zero |-> FALSE]

BranchEnv_init ==
    [d |-> 0, rdy |-> TRUE, nmi |-> FALSE, irq |-> FALSE, rst |-> FALSE,
     cur |-> NoBranch, last |-> NoBranch]

BranchBytes(b) ==
    IF b.read /\ ~b.sync /\ b.address \notin 65530..65535
    THEN BranchOffsets
    ELSE EnvBytes(b, BranchOpcodeBytes)

\* pre.b is the transaction that the cycle starting in pre completes.
BranchObserve(e, pre) ==
    LET tx == [read |-> pre.b.read, address |-> pre.b.address, data |-> pre.b.data]
    IN  IF pre.b.sync /\ pre.b.read
        THEN [e EXCEPT !.last = e.cur,
                       !.cur = [txs |-> <<tx>>, carry |-> pre.c.flags.carry,
                                zero |-> pre.c.flags.zero]]
        ELSE IF e.cur.txs = <<>> THEN e
        ELSE [e EXCEPT !.cur.txs = Append(@, tx)]

BranchCycle ==
    /\ obs.n < MaxBranchCycles
    /\ ~cpu_panic
    /\ \E d \in BranchBytes(bus) :
         LET e == [env EXCEPT !.d = d]
             pre == [c |-> cpu, b |-> EnvServe(bus, e), p |-> cpu_panic]
         IN  \E post \in {Cpu_step(pre)} :
                 /\ cpu' = post.c
                 /\ bus' = post.b
                 /\ cpu_panic' = post.p
                 /\ env' = BranchObserve(e, pre)
                 /\ obs' = Observe(obs, pre, post)
    /\ UNCHANGED nesVars

InitBranch ==
    /\ cpu = Cpu_new
    /\ bus = TraitBus_init
    /\ cpu_panic = FALSE
    /\ env = BranchEnv_init
    /\ obs = Obs_init
    /\ nes = NesBus_new(Mapper0_new(NromRom))
    /\ drv = Drv_init

NextBranch == BranchCycle

SpecBranch == InitBranch /\ [][NextBranch]_vars

----------------------------------------------------------------------------
(* Indexed reads: programs of LDA absolute,X, LDA absolute,Y, LDA (zp),Y,  *)
(* LDX # and LDY # run from power-on with operand, address and pointer     *)
(* bytes drawn from IndexOperands.  The environment keeps the bus          *)
(* transactions of the instruction in progress with the X and Y it began   *)
(* with (cur), and those of the last instruction that ended (last).        *)

MaxIndexCycles == 17

\* LDY #, LDX #, LDA (zp),Y, LDA abs,Y, LDA abs,X
IndexOpcodeBytes == {160, 162, 177, 185, 189}

IndexOperands == {1, 255}

NoIndexed == [txs |-> <<>>, x |-> 0, y |-> 0]

IndexEnv_init ==
    [d |-> 0, rdy |-> TRUE, nmi |-> FALSE, irq |-> FALSE, rst |-> FALSE,
     cur |-> NoIndexed, last |-> NoIndexed]

IndexBytes(b) ==
    IF b.read /\ ~b.sync /\ b.address \notin 65530..65535
    THEN IndexOperands
    ELSE EnvBytes(b, IndexOpcodeBytes)

\* pre.b is the transaction that the cycle starting in pre completes.
IndexObserve(e, pre) ==
    LET tx == [read |-> pre.b.read, address |-> pre.b.address, data |-> pre.b.data]
    IN  IF pre.b.sync /\ pre.b.read
        THEN [e EXCEPT !.last = e.cur,
                       !.cur = [txs |-> <<tx>>, x |-> pre.c.x, y |-> pre.c.y]]
        ELSE IF e.cur.txs = <<>> THEN e
        ELSE [e EXCEPT !.cur.txs = Append(@, tx)]

IndexCycle ==
    /\ obs.n < MaxIndexCycles
    /\ ~cpu_panic
    /\ \E d \in IndexBytes(bus) :
         LET e == [env EXCEPT !.d = d]
             pre == [c |-> cpu, b |-> EnvServe(bus, e), p |-> cpu_panic]
         IN  \E post \in {Cpu_step(pre)} :
                 /\ cpu' = post.c
                 /\ bus' = post.b
                 /\ cpu_panic' = post.p
                 /\ env' = IndexObserve(e, pre)
                 /\ obs' = Observe(obs, pre, post)
    /\ UNCHANGED nesVars

InitIndex ==
    /\ cpu = Cpu_new
    /\ bus = TraitBus_init
    /\ cpu_panic = FALSE
    /\ env = IndexEnv_init
    /\ obs = Obs_init
    /\ nes = NesBus_new(Mapper0_new(NromRom))
    /\ drv = Drv_init

NextIndex == IndexCycle

SpecIndex == InitIndex /\ [][NextIndex]_vars

----------------------------------------------------------------------------
(* Sprite evaluation applied once.  The OAM contents tried: count entries  *)
(* in range of the line, the first at entry first and the others every     *)
(* stride entries after it, each with its top off lines above the line;    *)
(* all other entries are off screen.                                       *)

SpriteLines == {20}

SpriteCounts == 0 .. 10

SpriteFirsts == {0, 1, 53, 56}

SpriteStrides == {1, 6}

SpriteOffs == {0, 7, 8, 15, 16}

SpriteConfigs ==
    {c \in [line : SpriteLines, count : SpriteCounts, first : SpriteFirsts,
            stride : SpriteStrides, off : SpriteOffs, size16 : BOOLEAN] :
        c.first + (c.count - 1) * c.stride <= 63}

Placed(c, i) ==
    /\ i >= c.first
    /\ (i - c.first) % c.stride = 0
    /\ (i - c.first) \div c.stride < c.count

\* Entry i as its four bytes.
OamOf(c) ==
    [i \in 0 .. 63 |->
        [y |-> IF Placed(c, i) THEN c.line - c.off ELSE 200,
         tile |-> i, flags |-> (i % 4) * 32 + (i % 4), x |-> (i * 3) % 256]]

OamByte(c, a) ==
    LET e == OamOf(c)[a \div 4]
    IN  CASE a % 4 = 0 -> e.y [] a % 4 = 1 -> e.tile [] a % 4 = 2 -> e.flags
          [] OTHER -> e.x

OamMem(c) == [a \in {b \in 0 .. 255 : OamByte(c, b) # 0} |-> OamByte(c, a)]

\* The console at dot 257 of the line, rendering enabled.
SpritesConsole(c) ==
    [NesBus_new(Mapper0_new(NromRom)) EXCEPT
        !.ppu.oam = OamMem(c),
        !.ppu.dot = <<257, c.line>>,
        !.ppu.mask = 24,
        !.ppu.control = IF c.size16 THEN 32 ELSE 0]

InitSprites ==
    /\ cpu = Cpu_new
    /\ bus = TraitBus_init
    /\ cpu_panic = FALSE
    /\ obs = Obs_init
    /\ \E c \in SpriteConfigs :
            /\ env = [c |-> c, done |-> FALSE]
            /\ nes = SpritesConsole(c)
    /\ drv = Drv_init

EvaluateSprites ==
    /\ ~env.done
    /\ env' = [env EXCEPT !.done = TRUE]
    /\ nes' = evaluate_sprites(nes)
    /\ UNCHANGED <<cpu, bus, cpu_panic, obs, drv>>

NextSprites == EvaluateSprites

SpecSprites == InitSprites /\ [][NextSprites]_vars

----------------------------------------------------------------------------
(* The pixel multiplexer applied once.  The pixels tried: slot 0 of the    *)
(* fetched sprites is empty or holds sprite zero (opaque at x, transparent *)
(* at x, or away from x) or another opaque sprite; slot 1 is empty or      *)
(* holds another opaque sprite; the background shifters give pattern bg.   *)

PixelXs == {0, 7, 8, 100, 254, 255}

BgPatterns == {0, 1, 2}

MaskBytes == {2 * a + 4 * b + 8 * c + 16 * d : a, b, c, d \in {0, 1}}

FirstSlots == {"none", "zero_opaque", "zero_clear", "zero_away", "other_opaque"}

SecondSlots == {"none", "other_opaque"}

SlotSprite(kind, x) ==
    IF kind = "none" THEN Sprite_default
    ELSE [Sprite_default EXCEPT
            !.present = TRUE,
            !.x = IF kind = "zero_away" THEN (IF x >= 100 THEN 0 ELSE 200)
                  ELSE IF x >= 3 THEN x - 3 ELSE 0,
            !.sprite_zero = kind \in {"zero_opaque", "zero_clear", "zero_away"},
            !.pattern = IF kind = "zero_clear" THEN <<0, 0>> ELSE <<255, 0>>]

PixelSprites(p) ==
    [j \in 0 .. 7 |-> IF j = 0 THEN SlotSprite(p.first, p.x)
                      ELSE IF j = 1 THEN SlotSprite(p.second, p.x)
                      ELSE Sprite_default]

Pixels ==
    [x : PixelXs, bg : BgPatterns, mask : MaskBytes, first : FirstSlots,
     second : SecondSlots, before : BOOLEAN]

\* The console at dot x + 1 of a visible line.
PixelConsole(p) ==
    [NesBus_new(Mapper0_new(NromRom)) EXCEPT
        !.ppu.dot = <<p.x + 1, 20>>,
        !.ppu.mask = p.mask,
        !.ppu.meta.sprite_zero_hit = p.before,
        !.ppu.shifters.pattern = <<IF p.bg = 1 THEN 32768 ELSE 0,
                                   IF p.bg = 2 THEN 32768 ELSE 0>>,
        !.ppu.sprites.sprites = PixelSprites(p),
        !.ppu.sprites.eval_index = 8]

InitPixel ==
    /\ cpu = Cpu_new
    /\ bus = TraitBus_init
    /\ cpu_panic = FALSE
    /\ obs = Obs_init
    /\ \E p \in Pixels :
            /\ env = [p |-> p, done |-> FALSE]
            /\ nes = PixelConsole(p)
    /\ drv = Drv_init

ProducePixel ==
    /\ ~env.done
    /\ env' = [env EXCEPT !.done = TRUE]
    /\ nes' = produce_pixel(nes)
    /\ UNCHANGED <<cpu, bus, cpu_panic, obs, drv>>

NextPixel == ProducePixel

SpecPixel == InitPixel /\ [][NextPixel]_vars

----------------------------------------------------------------------------
(* Rendering switched on and off: a program enables rendering through      *)
(* $2001 in its first cycle or never, toggles it in cycles that begin at   *)
(* one of the dots 254 to 330 of a line, two writes at least four cycles   *)
(* apart,                                                                  *)
(* and idles on RAM reads otherwise.  The environment counts the cycles    *)
(* since the last write and the writes.                                    *)

MaxFetchCycles == 204

MaskWriteDots == 254 .. 330

InitFetch ==
    /\ cpu = Cpu_new
    /\ bus = TraitBus_init
    /\ cpu_panic = FALSE
    /\ obs = Obs_init
    /\ env = [quiet |-> 4, writes |-> 0]
    /\ nes = NesBus_new(Mapper0_new(NromRom))
    /\ drv = Drv_init

FetchIdle ==
    /\ drv.n < MaxFetchCycles
    /\ ~nes.p
    /\ DrvRead(0, TRUE)
    /\ env' = [env EXCEPT !.quiet = IF @ < 4 THEN @ + 1 ELSE @]
    /\ UNCHANGED <<cpu, bus, cpu_panic, obs>>

\* A write to $2001 that changes whether rendering is enabled.
FetchMask ==
    /\ drv.n < MaxFetchCycles
    /\ ~nes.p
    /\ IF env.writes = 0 THEN drv.n = 0
       ELSE env.quiet >= 4 /\ nes.ppu.dot[1] \in MaskWriteDots
    /\ DrvWrite(8193, IF render_enabled(nes.ppu.mask) THEN 0 ELSE 24)
    /\ env' = [quiet |-> 1, writes |-> env.writes + 1]
    /\ UNCHANGED <<cpu, bus, cpu_panic, obs>>

NextFetch == FetchIdle \/ FetchMask

SpecFetch == InitFetch /\ [][NextFetch]_vars

----------------------------------------------------------------------------
(* $2007 writes while rendering: a program writes $2001 in its first       *)
(* cycle, enabling rendering or not, sets an address in the nametables     *)
(* with two $2006 writes, and then writes $2007 or idles on RAM reads.     *)
(* The environment keeps whether some dot so far had READ_ENABLE and       *)
(* WRITE_ENABLE asserted together on the PPU bus.                          *)

MaxRenderCycles == 10

RenderMasks == {0, 24}

\* The console after each of the three dots of the cycle that m enters with
\* the CPU's lines set.
DotsOf(m) ==
    With(cpu_cycle([m EXCEPT !.cpu_bus.irq = FALSE, !.trace = <<>>]),
         LAMBDA d1 : With(ppu_cycle(d1), LAMBDA d2 : <<d1, d2, ppu_cycle(d2)>>))

BothEnabled(m) ==
    With(DotsOf(m),
         LAMBDA dots :
             \E k \in 1 .. 3 :
                 dots[k].ppu_bus.read_enable /\ dots[k].ppu_bus.write_enable)

WriteLines(m, addr, data) ==
    [m EXCEPT !.cpu_bus.address = addr, !.cpu_bus.data = data,
              !.cpu_bus.sync = FALSE, !.cpu_bus.halt = FALSE, !.cpu_bus.read = FALSE]

ReadLines(m, addr) ==
    [m EXCEPT !.cpu_bus.sync = TRUE, !.cpu_bus.halt = FALSE,
              !.cpu_bus.address = addr, !.cpu_bus.read = TRUE]

InitRender ==
    /\ cpu = Cpu_new
    /\ bus = TraitBus_init
    /\ cpu_panic = FALSE
    /\ obs = Obs_init
    /\ env = [both |-> FALSE, writes |-> 0]
    /\ nes = NesBus_new(Mapper0_new(NromRom))
    /\ drv = Drv_init

RenderMask ==
    /\ drv.n = 0
    /\ \E d \in RenderMasks :
            /\ DrvWrite(8193, d)
            /\ env' = [env EXCEPT !.both = @ \/ BothEnabled(WriteLines(nes, 8193, d))]
    /\ UNCHANGED <<cpu, bus, cpu_panic, obs>>

RenderAddr ==
    /\ drv.n \in {1, 2}
    /\ ~nes.p
    /\ \E d \in VramAddrBytes :
            /\ DrvWrite(8198, d)
            /\ env' = [env EXCEPT !.both = @ \/ BothEnabled(WriteLines(nes, 8198, d))]
    /\ UNCHANGED <<cpu, bus, cpu_panic, obs>>

RenderWrite ==
    /\ drv.n > 2 /\ drv.n < MaxRenderCycles
    /\ ~nes.p
    /\ DrvWrite(8199, VramByte(drv.n))
    /\ env' = [both |-> env.both \/ BothEnabled(WriteLines(nes, 8199, VramByte(drv.n))),
               writes |-> env.writes + 1]
    /\ UNCHANGED <<cpu, bus, cpu_panic, obs>>

RenderIdle ==
    /\ drv.n > 2 /\ drv.n < MaxRenderCycles
    /\ ~nes.p
    /\ DrvRead(0, TRUE)
    /\ env' = [env EXCEPT !.both = @ \/ BothEnabled(ReadLines(nes, 0))]
    /\ UNCHANGED <<cpu, bus, cpu_panic, obs>>

NextRender == RenderMask \/ RenderAddr \/ RenderWrite \/ RenderIdle

SpecRender == InitRender /\ [][NextRender]_vars

----------------------------------------------------------------------------
(* An OAM DMA that overlaps the start of vblank, seen from the processor:  *)
(* READY is low for the length of the transfer, the NMI line rises in one  *)
(* of its cycles and stays high afterwards (vblank outlasts the transfer). *)
(* The history records the kind of cycle that first sampled the line high  *)
(* (rose), the halted cycles that sampled it high (stalls), whether a      *)
(* cycle that was not halted has sampled it high (latch), and the fetch    *)
(* boundaries the processor reached after that cycle (fetches).            *)

MaxNmiCycles == 30

\* Cycles for which the transfer holds READY low.
DmaLengths == 3 .. 5

\* NOP, PHA
NmiOpcodeBytes == {234, 72}

\* The cycle ran Cpu::fetch: it starts an opcode fetch or takes an interrupt.
FetchBoundary(pre, post) ==
    /\ ~post.b.halted
    /\ ~pre.b.reset
    /\ ~pre.c.jammed
    /\ post.b.sync \/ Taken(pre, post)

InitNmiDma ==
    /\ cpu = Cpu_new
    /\ bus = TraitBus_init
    /\ cpu_panic = FALSE
    /\ obs = Obs_init
    /\ env = [d |-> 0, rdy |-> TRUE, nmi |-> FALSE, irq |-> FALSE, rst |-> FALSE,
              phase |-> "run", left |-> 0, rose |-> "no", stalls |-> 0,
              latch |-> FALSE, fetches |-> 0]
    /\ nes = NesBus_new(Mapper0_new(NromRom))
    /\ drv = Drv_init

\* One call of Cpu::cycle with READY and NMI driven as rdy and nmi; the
\* transfer is in phase ph with left cycles to go after this one.
NmiDmaStep(rdy, nmi, ph, left) ==
    \E d \in EnvBytes(bus, NmiOpcodeBytes) :
        LET e == [d |-> d, rdy |-> rdy, nmi |-> nmi, irq |-> FALSE, rst |-> FALSE]
            pre == [c |-> cpu, b |-> EnvServe(bus, e), p |-> cpu_panic]
        IN  \E post \in {Cpu_step(pre)} :
                /\ cpu' = post.c
                /\ bus' = post.b
                /\ cpu_panic' = post.p
                /\ env' = [d |-> d, rdy |-> rdy, nmi |-> nmi, irq |-> FALSE,
                           rst |-> FALSE, phase |-> ph, left |-> left,
                           rose |-> IF env.rose # "no" \/ ~nmi THEN env.rose
                                    ELSE IF post.b.halted THEN "halted" ELSE "running",
                           stalls |-> env.stalls + B2N(nmi /\ post.b.halted),
                           latch |-> env.latch \/ (nmi /\ ~post.b.halted),
                           fetches |-> IF env.latch /\ FetchBoundary(pre, post)
                                          /\ env.fetches < 2
                                       THEN env.fetches + 1 ELSE env.fetches]
                /\ obs' = Observe(obs, pre, post)

\* A cycle of the program before the transfer.
NmiRunCycle ==
    /\ obs.n < MaxNmiCycles
    /\ ~cpu_panic
    /\ env.phase = "run"
    /\ NmiDmaStep(TRUE, FALSE, "run", 0)
    /\ UNCHANGED nesVars

\* A cycle of the transfer: its first, once the power-on sequence is over,
\* or a later one.  The NMI line may rise in any of them.
NmiDmaCycle ==
    /\ obs.n < MaxNmiCycles
    /\ ~cpu_panic
    /\ \E left \in 0 .. 4, nmi \in BOOLEAN :
            /\ \/ /\ env.phase = "run"
                  /\ obs.seq.kind = "none"
                  /\ left + 1 \in DmaLengths
               \/ /\ env.phase = "dma"
                  /\ env.left > 0
                  /\ left = env.left - 1
                  /\ env.nmi => nmi
            /\ NmiDmaStep(FALSE, nmi, "dma", left)
    /\ UNCHANGED nesVars

\* A cycle of the program after the transfer, the NMI line held.
NmiAfterCycle ==
    /\ obs.n < MaxNmiCycles
    /\ ~cpu_panic
    /\ \/ env.phase = "dma" /\ env.left = 0
       \/ env.phase = "after"
    /\ NmiDmaStep(TRUE, env.nmi, "after", 0)
    /\ UNCHANGED nesVars

NextNmiDma == NmiRunCycle \/ NmiDmaCycle \/ NmiAfterCycle

SpecNmiDma == InitNmiDma /\ [][NextNmiDma]_vars

----------------------------------------------------------------------------
(* Properties of the console. *)

\* C1: once the machine is constructed no sequence of bus cycles makes a
\* step fail: no panic, out-of-bounds index, unreachable!() arm or
\* arithmetic overflow is ever hit.
C1_NoStepFails == ~nes.p /\ ~cpu_panic

DotOf(k) == <<k % DOTS, k \div DOTS>>

\* Each cycle is one transaction that processes three dots, the first of
\* them shared with the processor.
OneTransactionThreeDots ==
    /\ drv.n = nes.cycle
    /\ nes.cycle > 0 =>
         /\ Len(nes.trace) = 3
         /\ nes.trace[1].shared /\ ~nes.trace[2].shared /\ ~nes.trace[3].shared
         /\ \A k \in 1 .. 2 :
              \/ nes.trace[k + 1].dot = DotOf(nes.trace[k].dot[2] * DOTS + nes.trace[k].dot[1] + 1)
              \/ nes.trace[k + 1].dot = <<0, 0>>

\* C2: every CPU cycle is exactly one bus transaction, a read or a write,
\* that advances the cycle counter by 1 and the PPU by 3 dots, the first
\* shared with the CPU; so the dot position is always 3 times the elapsed
\* cycles modulo the frame length (341 * 262 dots while rendering is off).
C2_DotIsThreeTimesCycle ==
    /\ OneTransactionThreeDots
    /\ nes.ppu.dot = DotOf((3 * nes.cycle) % (DOTS * LINES))

\* C4: after a write to $4014 with no DMC DMA active the CPU is halted for
\* exactly 513 cycles when the write was on a get (even) cycle and 514 when
\* it was on a put cycle; NOT_READY stays up until the put cycle of step 255
\* has been done, after which the OAM DMA is Idle and NOT_READY is cleared.
C4_OamDmaStall ==
    (drv.dma.started /\ ~drv.dma.dmc) =>
        /\ drv.dma.put = (drv.dma.cyc % 2 = 1)
        /\ drv.dma.active /\ drv.dma.halted > 0 => nes.cpu_bus.not_ready
        /\ drv.dma.active => (nes.apu.dma.oam_dma = "Idle" <=> drv.dma.writes = 256)
        /\ ~drv.dma.active =>
             /\ drv.dma.halted = IF drv.dma.put THEN 514 ELSE 513
             /\ ~nes.cpu_bus.not_ready
             /\ nes.apu.dma.oam_dma = "Idle"

C4_Witness ==
    /\ drv.dma.started /\ ~drv.dma.active /\ ~drv.dma.dmc
    /\ drv.dma.put /\ drv.dma.halted = 514

\* C5: an OAM DMA of page P makes exactly 256 writes to $2004, the i-th
\* carrying the byte read from P<<8 | i on the cycle before; with OAMADDR = 0
\* at the start, OAM equals memory P<<8 .. P<<8 + 255 when the DMA ends.
C5_OamDmaCopiesPage ==
    (drv.dma.started /\ ~drv.dma.dmc) =>
        /\ drv.dma.paired
        /\ drv.dma.writes <= 256
        /\ ~drv.dma.active =>
             /\ drv.dma.writes = 256
             /\ \A i \in 0 .. 255 :
                  Get(nes.ppu.oam, i) = MemAt(nes, drv.dma.page * 256 + i)

C5_Witness ==
    /\ drv.dma.started /\ ~drv.dma.active /\ drv.dma.page = 2
    /\ Get(nes.ppu.oam, 0) = 82 /\ Get(nes.ppu.oam, 255) = 119

\* C7: processing a dot sets the vblank bit exactly at dot (1, 241) and
\* clears it exactly at dot (1, 261), and at dot (1, 241) the NMI line
\* rises if and only if control.nmi_enable is set.
C7_VblankTiming ==
    \A k \in 1 .. Len(nes.trace) :
        LET e == nes.trace[k]
        IN  /\ (~e.vb_before /\ e.vb_after) <=> e.dot = <<1, 241>>
            /\ (e.vb_before /\ ~e.vb_after) <=> (e.vb_before /\ e.dot = <<1, 261>>)
            /\ e.dot = <<1, 261>> => ~e.vb_after
            /\ e.dot = <<1, 241>> => ((~e.nmi_before /\ e.nmi_after) <=> e.nmi_enable)

C7_Witness ==
    /\ Len(nes.trace) = 3
    /\ nes.trace[1].dot = <<1, 241>>
    /\ nes.trace[1].nmi_after
    /\ nes.trace[3].vb_after

C7_WitnessClear ==
    /\ Len(nes.trace) = 3
    /\ nes.trace[2].dot = <<1, 261>>
    /\ nes.trace[2].vb_before

\* The last transaction read a RAM cell that a write had set.
\* What a program can store in the console: the memories, the mapper and
\* the registers of the PPU and the APU, without the counters that time
\* alone advances.
Stored(m) ==
    [ram |-> m.ram, vram |-> m.vram, oam |-> m.ppu.oam,
     palette |-> m.ppu.palette, mapper |-> m.mapper,
     ppu |-> [control |-> m.ppu.control, mask |-> m.ppu.mask,
              oam_addr |-> m.ppu.oam_addr, t |-> m.ppu.t, v |-> m.ppu.v,
              x |-> m.ppu.meta.x, w |-> m.ppu.meta.w,
              data_latch |-> m.ppu.data_latch],
     apu |-> [irq_enable |-> m.apu.dmc.irq_enable,
              loop_playback |-> m.apu.dmc.loop_playback,
              wait_cycles |-> m.apu.dmc.wait_cycles,
              sample |-> m.apu.dmc.sample, start |-> m.apu.dmc.start,
              length |-> m.apu.dmc.length,
              bytes_remaining |-> m.apu.dmc.bytes_remaining,
              pulse_enable |-> m.apu.status.pulse_enable,
              triangle_enable |-> m.apu.status.triangle_enable,
              noise_enable |-> m.apu.status.noise_enable,
              mode |-> m.apu.frame_counter.mode,
              irq_disable |-> m.apu.frame_counter.irq_disable,
              oam_dma |-> m.apu.dma.oam_dma, oam_page |-> m.apu.dma.oam_page],
     strobe |-> m.input.strobe]

OpenReadDone == drv.n > 0 /\ drv.read /\ drv.addr \in OpenReadAddrs

OpenWriteStep ==
    drv'.n = drv.n + 1 /\ ~drv'.read /\ drv'.addr \in OpenWriteAddrs

\* C15: a read of an address that nothing answers, a write-only PPU
\* register included, returns the byte the data bus carried last, and a
\* write to an address that nothing decodes changes no RAM, VRAM, OAM,
\* palette, mapper, APU register or PPU register.
C15_Cycle == OpenWriteStep => Stored(nes') = Stored(nes)

C15_OpenBus ==
    /\ [](OpenReadDone => nes.cpu_bus.data = drv.last)
    /\ [][C15_Cycle]_vars

\* A write-only PPU register was read right after a ROM byte other than
\* zero was on the bus, with PPUCTRL and RAM already written.
C15_Witness ==
    /\ OpenReadDone
    /\ drv.addr = 8192
    /\ drv.last = PrgByte(32769 % 32768)
    /\ drv.last # 0
    /\ nes.ppu.control = 171
    /\ nes.cpu_bus.data = drv.last

\* A write to $5000 followed a write to RAM.
C15_WitnessWrite ==
    /\ drv.n > 1 /\ ~drv.read /\ drv.addr = 20480
    /\ nes.cpu_bus.data = 171
    /\ Get(nes.ram, 0) = 17

\* The dot after dot d of a frame: the frame ends at dot 340 of line 261,
\* or one dot earlier in an odd frame drawn with rendering enabled.
FrameEnd(odd, rendering) ==
    IF odd /\ rendering THEN <<DOTS - 2, LINES - 1>> ELSE <<DOTS - 1, LINES - 1>>

DotAfter(d, odd, rendering) ==
    IF d = FrameEnd(odd, rendering) THEN <<0, 0>>
    ELSE IF d[1] + 1 = DOTS THEN <<0, d[2] + 1>>
    ELSE <<d[1] + 1, d[2]>>

\* The dot the PPU went to from the k-th dot of the current CPU cycle.
DotReached(k) ==
    IF k < Len(nes.trace) THEN nes.trace[k + 1].dot ELSE nes.ppu.dot

DotIndex(d) == d[2] * DOTS + d[1]

DotInRange ==
    /\ nes.ppu.dot[1] \in 0 .. DOTS - 1
    /\ nes.ppu.dot[2] \in 0 .. LINES - 1

\* Within a frame the counter only moves forward, one dot at a time.
DotMonotone ==
    \A k \in 1 .. Len(nes.trace) :
        \/ DotReached(k) = <<0, 0>>
        \/ DotIndex(DotReached(k)) = DotIndex(nes.trace[k].dot) + 1

\* A frame never ends before dot 339 of line 261.
FrameAtLeast89341 ==
    \A k \in 1 .. Len(nes.trace) :
        DotReached(k) = <<0, 0>> => DotIndex(nes.trace[k].dot) >= DOTS * LINES - 2

\* C16: the dot counter stays within 341 x 262, moves forward one dot at a
\* time within a frame, and a frame lasts 89,342 dots, or 89,341 when it is
\* odd and rendering is enabled.
C16_DotCounter ==
    /\ DotInRange
    /\ \A k \in 1 .. Len(nes.trace) :
           DotReached(k) = DotAfter(nes.trace[k].dot, nes.trace[k].odd,
                                    nes.trace[k].rendering)

StatusReadStep == drv'.n = drv.n + 1 /\ drv'.read /\ drv'.addr = 8194

\* The first write to $2005 or $2006 after a read of $2002.
WriteAfterStatus ==
    /\ drv.n > 0 /\ drv.read /\ drv.addr = 8194
    /\ drv'.n = drv.n + 1 /\ ~drv'.read /\ drv'.addr \in {8197, 8198}

\* C17: a read of $2002 returns sprite overflow, sprite-0 hit and vblank in
\* bits 5, 6 and 7; right after it (at the cycle's second dot) the vblank
\* flag is clear and w is reset, so that the next write to $2005 or $2006
\* is a first write; the sprite flags, v, t and fine x are as before.
C17_Cycle ==
    /\ StatusReadStep =>
        /\ nes'.cpu_bus.data = 32 * B2N(nes.ppu.meta.sprite_overflow)
                               + 64 * B2N(nes.ppu.meta.sprite_zero_hit)
                               + 128 * B2N(nes'.trace[1].vb_after)
        /\ ~nes'.trace[2].vb_before
        /\ ~nes'.ppu.meta.w
        /\ nes'.ppu.meta.sprite_overflow = nes.ppu.meta.sprite_overflow
        /\ nes'.ppu.meta.sprite_zero_hit = nes.ppu.meta.sprite_zero_hit
        /\ nes'.ppu.v = nes.ppu.v
        /\ nes'.ppu.t = nes.ppu.t
        /\ nes'.ppu.meta.x = nes.ppu.meta.x
    /\ WriteAfterStatus =>
        /\ nes'.ppu.meta.w
        /\ nes'.ppu.v = nes.ppu.v
        /\ drv'.addr = 8197 => nes'.ppu.meta.x = nes'.cpu_bus.data % 8

C17_StatusRead == [][C17_Cycle]_vars

\* $2002 was read in the vertical blank with both sprite flags set, after
\* one write to $2005 and so with w set, fine x 5 and t not zero.
C17_Witness ==
    /\ drv.n > 0 /\ drv.read /\ drv.addr = 8194
    /\ nes.cpu_bus.data = 224
    /\ ~nes.ppu.meta.vblank /\ ~nes.ppu.meta.w
    /\ nes.ppu.meta.sprite_overflow /\ nes.ppu.meta.sprite_zero_hit
    /\ nes.ppu.meta.x = 5
    /\ nes.ppu.t = 4

\* A write to $2005 was taken as a first write right after a read of $2002
\* that had reset w.
C17_WitnessFirstWrite ==
    /\ drv.n > 2 /\ ~drv.read /\ drv.addr = 8197
    /\ nes.ppu.meta.w
    /\ nes.ppu.meta.x = 3
    /\ nes.ppu.t = 21

\* The last four writes were $2005, $2005, $2006, $2006 and the first of
\* them found w clear.
ScrollSequenceDone ==
    /\ Len(env) >= 4
    /\ LET n == Len(env)
       IN  /\ env[n - 3].addr = 8197 /\ ~env[n - 3].w
           /\ env[n - 2].addr = 8197
           /\ env[n - 1].addr = 8198
           /\ env[n].addr = 8198

\* What one write of byte d to $2005 or $2006 does to t, v, x and w.
ScrollWriteStep ==
    LET a == drv'.addr
        d == nes'.cpu_bus.data
        t0 == nes.ppu.t
        t1 == nes'.ppu.t
    IN  (drv'.n = drv.n + 1 /\ ~drv'.read) =>
            /\ nes'.ppu.meta.w = ~nes.ppu.meta.w
            /\ (a = 8197 /\ ~nes.ppu.meta.w) =>
                    /\ nes'.ppu.meta.x = d % 8
                    /\ t1 % 32 = d \div 8
                    /\ t1 \div 32 = t0 \div 32
                    /\ nes'.ppu.v = nes.ppu.v
            /\ (a = 8197 /\ nes.ppu.meta.w) =>
                    /\ (t1 \div 4096) % 8 = d % 8
                    /\ (t1 \div 32) % 32 = d \div 8
                    /\ t1 % 32 = t0 % 32
                    /\ (t1 \div 1024) % 4 = (t0 \div 1024) % 4
                    /\ nes'.ppu.meta.x = nes.ppu.meta.x
                    /\ nes'.ppu.v = nes.ppu.v
            /\ (a = 8198 /\ ~nes.ppu.meta.w) =>
                    /\ (t1 \div 256) % 64 = d % 64
                    /\ t1 % 256 = t0 % 256
                    /\ nes'.ppu.meta.x = nes.ppu.meta.x
                    /\ nes'.ppu.v = nes.ppu.v
            /\ (a = 8198 /\ nes.ppu.meta.w) =>
                    /\ t1 % 256 = d
                    /\ t1 \div 256 = t0 \div 256
                    /\ nes'.ppu.v = t1
                    /\ nes'.ppu.meta.x = nes.ppu.meta.x

\* C18: after the writes $2005, $2005, $2006, $2006 begun with w clear, v
\* and t are a function of the four bytes alone (and fine x of the first),
\* whatever v, t and fine x were before; each write sets its fields of t.
C18_ScrollLatch ==
    /\ [](ScrollSequenceDone =>
            LET n == Len(env)
            IN  /\ nes.ppu.t = (env[n - 1].data % 64) * 256 + env[n].data
                /\ nes.ppu.v = nes.ppu.t
                /\ nes.ppu.meta.x = env[n - 3].data % 8
                /\ ~nes.ppu.meta.w)
    /\ [][ScrollWriteStep]_vars

\* The sequence was written over a v, a t and a fine x that all differ
\* from what it left.
C18_Witness ==
    /\ ScrollSequenceDone
    /\ LET n == Len(env)
       IN  /\ env[n - 3].v # 0 /\ env[n - 3].v # nes.ppu.v
           /\ env[n - 3].t # nes.ppu.t
           /\ env[n - 3].t # env[n - 3].v
           /\ env[n - 3].x # 0 /\ env[n - 3].x # nes.ppu.meta.x
           /\ env[n - 3].t >= 16384

DataAccess == drv'.n = drv.n + 1 /\ drv'.addr = 8199

\* C19: with rendering disabled a $2007 read returns the read buffer, which
\* a read at a nametable address fills with the byte last written there
\* through $2007, so that the first read after setting an address is stale
\* and the next ones return the bytes written; v advances by 1 or by 32
\* (PPUCTRL bit 2) on every $2007 access.
C19_Cycle ==
    DataAccess =>
        /\ nes'.ppu.v = (nes.ppu.v + (IF TestBit(nes.ppu.control, 2) THEN 32 ELSE 1))
                        % 16384
        /\ (drv'.read /\ env.buf # None) => nes'.cpu_bus.data = env.buf

C19_VramRoundTrip == [][C19_Cycle]_vars

\* Two bytes written at consecutive addresses came back in order: the last
\* read returned the second byte and the one before it had found the first
\* byte in the buffer.
C19_Witness ==
    /\ drv.read /\ drv.addr = 8199
    /\ env.want # None
    /\ nes.cpu_bus.data = env.want
    /\ env.buf # None /\ env.buf # env.want
    /\ nes.ppu.control = 0

\* A byte written with an increment of 32 came back on the second read
\* after the address was set to $2420 again.
C19_WitnessBy32 ==
    /\ drv.read /\ drv.addr = 8199
    /\ env.want # None
    /\ nes.cpu_bus.data = env.want
    /\ nes.ppu.control = 4
    /\ nes.ppu.v = 9312

\* The mapper's outputs for the address on the PPU bus.
MirrorSignals ==
    /\ nes.mapper_bus.vram_enable <=> InVram(nes.ppu_bus.address)
    /\ nes.mapper_bus.vram_a10 <=>
            TestBit(nes.ppu_bus.address,
                    IF nes.mapper.vertical_mirror THEN 10 ELSE 11)

\* A $2007 write reaches the nametable byte that the address selects under
\* the cartridge's mirroring and no other, or none outside $2000-$2FFF;
\* a $2007 read fetches that byte into the read buffer.
MirrorCycle ==
    LET v == nes.ppu.v
        c == Cell(nes, v)
    IN  DataAccess =>
            /\ (~drv'.read /\ InVram(v)) =>
                    /\ Get(nes'.vram, c) = nes'.cpu_bus.data
                    /\ \A k \in (0 .. 2047) \ {c} : Get(nes'.vram, k) = Get(nes.vram, k)
            /\ (~drv'.read /\ ~InVram(v)) => nes'.vram = nes.vram
            /\ (drv'.read /\ InVram(v)) => nes'.ppu.data_latch = Get(nes.vram, c)

\* C20: on every PPU memory cycle the mapper enables VRAM exactly for
\* addresses $2000-$2FFF and drives VRAM_A10 from address bit 11
\* (horizontal) or bit 10 (vertical), so that $2000 and $2400 are one byte
\* and $2000 and $2800 two under horizontal mirroring, and the reverse
\* under vertical mirroring.
C20_Mirroring == []MirrorSignals /\ [][MirrorCycle]_vars

\* Horizontal mirroring: the only write went to $2000 and a read of $2400
\* fetched its byte.
C20_Witness ==
    /\ ~nes.mapper.vertical_mirror
    /\ Len(env) = 1 /\ env[1].v = 8192
    /\ drv.read /\ drv.addr = 8199 /\ nes.ppu.v = 9217
    /\ nes.ppu.data_latch = env[1].d

\* Horizontal mirroring: a read of $2800 did not fetch the byte at $2000.
C20_WitnessHorizontalDiffer ==
    /\ ~nes.mapper.vertical_mirror
    /\ Len(env) = 1 /\ env[1].v = 8192
    /\ drv.read /\ drv.addr = 8199 /\ nes.ppu.v = 10241
    /\ nes.ppu.data_latch = 0

\* Vertical mirroring: a read of $2800 fetched the byte written to $2000.
C20_WitnessVertical ==
    /\ nes.mapper.vertical_mirror
    /\ Len(env) = 1 /\ env[1].v = 8192
    /\ drv.read /\ drv.addr = 8199 /\ nes.ppu.v = 10241
    /\ nes.ppu.data_latch = env[1].d

\* Vertical mirroring: a read of $2400 did not fetch the byte at $2000.
C20_WitnessVerticalDiffer ==
    /\ nes.mapper.vertical_mirror
    /\ Len(env) = 1 /\ env[1].v = 8192
    /\ drv.read /\ drv.addr = 8199 /\ nes.ppu.v = 9217
    /\ nes.ppu.data_latch = 0

\* A UxROM read that returned a byte.
UxReadDone == nes.mapper.kind = "Mapper2" /\ drv.n > 0 /\ drv.read /\ ~nes.p

\* The byte at the offset of addr in the last 16 KiB PRG bank.
LastBankByte(addr) == PrgByte((nes.mapper.banks - 1) * 16384 + (addr % 16384))

\* A write of byte d anywhere in $8000-$FFFF selects bank d.
UxSelectStep ==
    (drv'.n = drv.n + 1 /\ ~drv'.read /\ drv'.addr >= 32768) =>
        nes'.mapper.bank = nes'.cpu_bus.data

SelectSetsBank == [][UxSelectStep]_vars

\* Reads in $8000-$BFFF return the byte of the selected bank.
SwitchedBank ==
    (UxReadDone /\ drv.addr >= 32768 /\ drv.addr < 49152) =>
        nes.cpu_bus.data = PrgByte(nes.mapper.bank * 16384 + (drv.addr % 16384))

\* Reads in $C001-$FFFF return the byte of the last bank.
FixedBankAboveC000 ==
    (UxReadDone /\ drv.addr > 49152) => nes.cpu_bus.data = LastBankByte(drv.addr)

\* C21: on UxROM reads in $8000-$BFFF return the byte of the selected bank
\* and every read in $C000-$FFFF, $C000 included, returns the byte at the
\* same offset of the last bank.
C21_UxBanks ==
    /\ SwitchedBank
    /\ (UxReadDone /\ drv.addr >= 49152) => nes.cpu_bus.data = LastBankByte(drv.addr)

\* The order of the states of a DMC fetch.
DmcSequenceStep ==
    LET d0 == nes.apu.dma.dmc_dma
        d1 == nes'.apu.dma.dmc_dma
    IN  \/ d1 = d0 /\ d0 \in {"Idle", "Started"}
        \/ d0 = "Idle" /\ d1 = "Started"
        \/ d0 = "Started" /\ d1 = "Dummy"
        \/ d0 = "Dummy" /\ d1 = "ToRead"
        \/ d0 = "ToRead" /\ d1 = "ToReceive"
        \/ d0 = "ToReceive" /\ d1 \in {"Idle", "Started"}

DmcSequence == [][DmcSequenceStep]_vars

\* A fetch stalls the processor for at least one cycle.
DmcStallsAtLeastOnce == env.done # None => env.done >= 1

\* With no OAM DMA active a fetch stalls the processor for 4 or 5 cycles.
DmcStallsFourOrFive == (env.done # None /\ ~env.over) => env.done \in {4, 5}

\* C22: a DMC fetch goes through Started, Dummy, ToRead, ToReceive and
\* keeps the processor stalled for 1 to 4 cycles at every alignment; here
\* for the fetches made with no OAM DMA active.
C22_DmcStall == (env.done # None /\ ~env.over) => env.done \in 1 .. 4

\* The cycle a step runs is a get cycle when put_cycle is false before it.
OamReadStep ==
    /\ nes.apu.dma.oam_dma \in {"Started", "ToRead"}
    /\ nes'.apu.dma.oam_dma = "ToWrite"

OamWriteStep ==
    /\ nes.apu.dma.oam_dma = "ToWrite"
    /\ nes'.apu.dma.oam_dma \in {"ToRead", "Idle"}

DmcReadStep ==
    /\ nes.apu.dma.dmc_dma = "ToRead"
    /\ nes'.apu.dma.dmc_dma = "ToReceive"

PutCycleIsParity == nes.apu.dma.put_cycle = (nes.cycle % 2 = 1)

DmaParityStep ==
    /\ nes'.cycle = nes.cycle + 1
    /\ nes'.apu.dma.put_cycle = ~nes.apu.dma.put_cycle
    /\ OamReadStep \/ DmcReadStep =>
            /\ ~nes.apu.dma.put_cycle
            /\ nes'.cpu_bus.read
    /\ OamWriteStep =>
            /\ nes.apu.dma.put_cycle
            /\ ~nes'.cpu_bus.read /\ nes'.cpu_bus.address = 8196

\* C28: put_cycle toggles on every processor cycle and is the parity of the
\* cycles since power-on; with OAM and DMC DMA interleaved every DMA read
\* is made on a get cycle and every OAM DMA write to $2004 on a put cycle.
C28_PutCycle == []PutCycleIsParity /\ [][DmaParityStep]_vars

\* An OAM DMA read has just been made, after a DMC fetch that fell inside
\* the transfer.
C28_Witness ==
    /\ env.over /\ env.writes \in 1 .. 255
    /\ nes.apu.dma.oam_dma = "ToWrite"
    /\ nes.apu.dma.put_cycle
    /\ nes.cpu_bus.read /\ nes.cpu_bus.address = 32768 + nes.apu.dma.oam_step

\* A DMC read has just been made while the OAM DMA waits in Align.
C28_WitnessDmcRead ==
    /\ nes.apu.dma.dmc_dma = "ToReceive"
    /\ nes.apu.dma.oam_dma = "Align"
    /\ nes.apu.dma.put_cycle
    /\ nes.cpu_bus.read /\ nes.cpu_bus.address = nes.apu.dma.dmc_address

\* The DMC read took the cycle of an OAM DMA read: the bus carries the DMC
\* address, the OAM DMA waits in Align with its step kept, and Align leads
\* back to the read.
DmcPriorityStep ==
    /\ (nes.apu.dma.dmc_dma = "ToRead" /\ nes.apu.dma.oam_dma = "ToRead" =>
            /\ nes'.apu.dma.dmc_dma = "ToReceive"
            /\ nes'.cpu_bus.read /\ nes'.cpu_bus.address = nes.apu.dma.dmc_address
            /\ nes'.apu.dma.oam_dma = "Align"
            /\ nes'.apu.dma.oam_step = nes.apu.dma.oam_step)
    /\ (nes.apu.dma.oam_dma = "Align" =>
            /\ nes'.apu.dma.oam_dma = "ToRead"
            /\ nes'.apu.dma.oam_step = nes.apu.dma.oam_step)

\* Every byte written so far was read from its own source address, went to
\* its own place in OAM and followed the byte before it.
OamBytesInOrder == env.paired /\ env.writes <= 256

\* The OAM DMA that was started ends, with 256 bytes written.
OamDmaEnds ==
    /\ (env.oam /\ nes.apu.dma.oam_dma = "Idle" /\ env.writes > 0 => env.writes = 256)
    /\ (env.oam /\ nes.cycle = MaxDmcCycles => nes.apu.dma.oam_dma = "Idle" /\ env.writes = 256)

\* C29: a DMC read has priority over an OAM DMA read without cancelling the
\* transfer: the OAM DMA goes to Align and makes the same read again, and
\* ends having written all 256 bytes in order, none skipped, repeated or
\* replaced by the DMC byte.
C29_DmcPriority == [](OamBytesInOrder /\ OamDmaEnds) /\ [][DmcPriorityStep]_vars

\* The transfer ended with 256 bytes in OAM, a DMC fetch having fallen
\* inside it.
C29_Witness ==
    /\ env.over /\ env.oam
    /\ nes.apu.dma.oam_dma = "Idle"
    /\ env.writes = 256 /\ env.paired
    /\ env.fetches >= 1
    /\ \A i \in 0 .. 255 : Get(nes.ppu.oam, i) = PrgByte(i)

\* The instruction that ended last, its opcode byte, and whether it is a
\* read-modify-write on memory.
LastTxs == env.last.txs

LastOpcode == LastTxs[1].data

RmwOnMemory == LastTxs # <<>> /\ LastOpcode \in {6, 38, 110, 214, 230}

\* The effective address, from the operand bytes that follow the opcode.
RmwAddress ==
    CASE LastOpcode = 110 -> MkWord(LastTxs[2].data, LastTxs[3].data)
      [] LastOpcode = 214 -> (LastTxs[2].data + env.last.x) % 256
      [] OTHER -> LastTxs[2].data

\* The byte the operation makes of v.
RmwResult(v) ==
    CASE LastOpcode = 6 -> (v * 2) % 256
      [] LastOpcode = 38 -> ((v * 2) % 256) + B2N(env.last.carry)
      [] LastOpcode = 110 -> (v \div 2) + 128 * B2N(env.last.carry)
      [] LastOpcode = 214 -> (v + 255) % 256
      [] OTHER -> (v + 1) % 256

\* An instruction that is not a read-modify-write on memory writes nothing.
OthersWriteNothing ==
    LastTxs # <<>> /\ ~RmwOnMemory => \A i \in DOMAIN LastTxs : LastTxs[i].read

\* C30: a read-modify-write instruction on memory ends with the operand
\* read and exactly two write cycles after it, all three at the effective
\* address: the first write carries the byte just read, the second the
\* modified byte.
C30_RmwDoubleWrite ==
    RmwOnMemory =>
        LET n == Len(LastTxs)
        IN  /\ n >= 5
            /\ \A i \in 1 .. n : LastTxs[i].read = (i < n - 1)
            /\ \A i \in n - 2 .. n : LastTxs[i].address = RmwAddress
            /\ LastTxs[n - 1].data = LastTxs[n - 2].data
            /\ LastTxs[n].data = RmwResult(LastTxs[n - 2].data)

\* ROL of $80 on the zero page with the carry set: $80 is written back,
\* then $01.
C30_Witness ==
    /\ RmwOnMemory /\ LastOpcode = 38 /\ env.last.carry
    /\ Len(LastTxs) = 5
    /\ LastTxs[3] = [read |-> TRUE, address |-> 255, data |-> 128]
    /\ LastTxs[4] = [read |-> FALSE, address |-> 255, data |-> 128]
    /\ LastTxs[5] = [read |-> FALSE, address |-> 255, data |-> 1]

\* DEC $FF,X with X = 1 wrote $01 and then $00 to $0000.
C30_WitnessIndexed ==
    /\ RmwOnMemory /\ LastOpcode = 214 /\ env.last.x = 1
    /\ Len(LastTxs) = 6
    /\ LastTxs[5] = [read |-> FALSE, address |-> 0, data |-> 1]
    /\ LastTxs[6] = [read |-> FALSE, address |-> 0, data |-> 0]

\* The last instruction that ended is a branch; whether it was taken, the
\* address of the instruction after it, its target and the cycles it took.
BranchEnded == env.last.txs # <<>> /\ env.last.txs[1].data \in {144, 176, 208, 240}

BranchTaken ==
    CASE env.last.txs[1].data = 144 -> ~env.last.carry
      [] env.last.txs[1].data = 176 -> env.last.carry
      [] env.last.txs[1].data = 208 -> ~env.last.zero
      [] OTHER -> env.last.zero

BranchNext == (env.last.txs[1].address + 2) % 65536

BranchTarget == (BranchNext + sign_cast(env.last.txs[2].data) + 65536) % 65536

BranchCrosses == BranchTarget \div 256 # BranchNext \div 256

BranchCycles == Len(env.last.txs)

\* The instruction fetched after the branch.
BranchLands == env.cur.txs[1].address

\* A branch goes where its condition and displacement say.
BranchGoesToTarget ==
    BranchEnded => BranchLands = (IF BranchTaken THEN BranchTarget ELSE BranchNext)

\* C31: a branch takes 2 cycles when not taken, 2 when taken within the
\* page and 3 when taken across a page boundary; the crossing is decided by
\* the signed sum of the displacement and the address of the next
\* instruction.
C31_BranchCycles ==
    BranchEnded =>
        /\ BranchGoesToTarget
        /\ BranchCycles = (IF BranchTaken /\ BranchCrosses THEN 3 ELSE 2)

\* C31, amended: a branch takes 2 cycles when not taken, 3 when taken
\* within the page and 4 when taken across a page boundary; the crossing
\* is decided by the signed sum of the displacement and the address of the
\* next instruction.
C31_BranchCyclesTaken ==
    BranchEnded =>
        /\ BranchGoesToTarget
        /\ BranchCycles = (IF ~BranchTaken THEN 2 ELSE IF BranchCrosses THEN 4 ELSE 3)

\* BCC -3 at $C000 with the carry clear went to $BFFF in four cycles.
C31_Witness ==
    /\ BranchEnded /\ BranchTaken /\ BranchCrosses
    /\ env.last.txs[1] = [read |-> TRUE, address |-> 49152, data |-> 144]
    /\ env.last.txs[2] = [read |-> TRUE, address |-> 49153, data |-> 253]
    /\ BranchCycles = 4
    /\ BranchLands = 49151

\* BCS +127 with the carry set, from $BFFF, went forward across the page.
C31_WitnessForward ==
    /\ BranchEnded /\ BranchTaken /\ BranchCrosses
    /\ env.last.txs[1].data = 176 /\ env.last.txs[2].data = 127
    /\ BranchCycles = 4
    /\ BranchLands > BranchNext

\* A taken branch within the page took three cycles, one not taken two.
C31_WitnessSamePage ==
    /\ BranchEnded /\ BranchTaken /\ ~BranchCrosses /\ BranchCycles = 3

C31_WitnessNotTaken ==
    /\ BranchEnded /\ ~BranchTaken /\ BranchCycles = 2 /\ env.last.txs[1].data = 240

\* The last instruction that ended is an indexed read; the bytes of its
\* base address, its index, and the cycles it took.
IndexedEnded == env.last.txs # <<>> /\ env.last.txs[1].data \in {177, 185, 189}

IndexedIndirect == env.last.txs[1].data = 177

IndexBaseLo == env.last.txs[IF IndexedIndirect THEN 3 ELSE 2].data

IndexBaseHi == env.last.txs[IF IndexedIndirect THEN 4 ELSE 3].data

IndexReg == IF env.last.txs[1].data = 189 THEN env.last.x ELSE env.last.y

IndexCarry == IndexBaseLo + IndexReg > 255

IndexCycles == Len(env.last.txs)

\* The address with the high byte not yet fixed, and the true address.
IndexUnfixed == MkWord((IndexBaseLo + IndexReg) % 256, IndexBaseHi)

IndexTrue == (MkWord(IndexBaseLo, IndexBaseHi) + IndexReg) % 65536

\* An indexed read takes one more cycle when the index carries, and its
\* last cycle reads the true address.
IndexedReadCycles ==
    IndexedEnded =>
        /\ IndexCycles = (IF IndexedIndirect THEN 5 ELSE 4) + B2N(IndexCarry)
        /\ env.last.txs[IndexCycles].read
        /\ env.last.txs[IndexCycles].address = IndexTrue
        /\ \A i \in 1 .. IndexCycles : env.last.txs[i].read

\* With a carry the cycle before the true read reads the true address too
\* (absolute,X and absolute,Y) or repeats the read of the pointer's high
\* byte ((zp),Y).
IndexedDummyAsBuilt ==
    IndexedEnded /\ IndexCarry =>
        env.last.txs[IndexCycles - 1].address =
            (IF IndexedIndirect THEN env.last.txs[IndexCycles - 2].address ELSE IndexTrue)

\* C32: when the index addition of an absolute,X, absolute,Y or (zp),Y read
\* carries out of the low byte, the cycle before the true read is a dummy
\* read at the address with the high byte not fixed; with no carry there is
\* no extra read.
C32_DummyRead ==
    IndexedEnded =>
        /\ IndexedReadCycles
        /\ (IndexCarry =>
                /\ env.last.txs[IndexCycles - 1].read
                /\ env.last.txs[IndexCycles - 1].address = IndexUnfixed)

\* C40: when the NMI line rises while an OAM DMA halts the processor, so
\* that only halted cycles (whose processor state is rolled back) sample the
\* edge, the NMI is not lost: none is taken before the transfer ends, the
\* first fetch boundary after the first cycle that is not halted takes it,
\* and no second one follows while the line stays high.
C40_NmiAfterDma ==
    env.rose = "halted" =>
        /\ obs.nmis = (IF env.fetches = 0 THEN 0 ELSE 1)
        /\ obs.edges <= 1
        /\ (env.latch /\ env.fetches = 0) => cpu.nmi_pending

C40_Witness ==
    /\ env.rose = "halted"
    /\ env.stalls >= 2
    /\ env.phase = "after"
    /\ env.fetches = 2
    /\ obs.nmis = 1
    /\ obs.last.kind = "nmi"
    /\ env.nmi /\ ~cpu.nmi_pending

\* A $2007 write at a nametable address stores the byte written in the
\* cell that v selected when the write was made.
StoresAtV ==
    LET v == nes.ppu.v
    IN  (DataAccess /\ ~drv'.read /\ InVram(v)) =>
            Get(nes'.vram, Cell(nes, v)) = nes'.cpu_bus.data

\* With rendering disabled the two enables are never asserted together and
\* a $2007 write stores its byte at v.
WritesWhileIdle ==
    /\ [](~render_enabled(nes.ppu.mask) => ~env.both)
    /\ [][~render_enabled(nes.ppu.mask) => StoresAtV]_vars

\* C39: READ_ENABLE and WRITE_ENABLE are never asserted in the same dot,
\* also when the CPU writes $2007 while rendering fetches, and the byte a
\* $2007 write stores is the byte written, at the address v held then.
C39_WriteExclusive == []~env.both /\ [][StoresAtV]_vars

\* While rendering stays as the first $2001 write set it, the fetch index
\* is in bounds where it is used, and is 8 from dot 322 of a line to dot
\* 257 of the next line rendered.
FetchIndexUndisturbed ==
    env.writes <= 1 => ~nes.p /\ nes.ppu.sprites.fetch_index <= 8

\* C38: whatever $2001 writes enable and disable rendering, the sprite
\* fetch index is at most 7 whenever it indexes the eight fetched sprites.
C38_FetchIndex == ~nes.p

\* The selected bank is the data byte of the last write to $8000-$FFFF,
\* whatever the number of banks.
BankAsBuilt ==
    (~drv.read /\ drv.addr >= 32768 /\ drv.n > 0) => nes.mapper.bank = nes.cpu_bus.data

\* C37: on a UxROM cartridge the selected bank is always less than the
\* number of 16 KiB PRG banks, and no CPU read of $8000-$FFFF indexes PRG
\* ROM out of its bounds.
C37_BankInBounds ==
    /\ nes.mapper.bank < nes.mapper.banks
    /\ (drv.read /\ drv.addr >= 32768) => ~nes.p

\* The CPU cycles of a 4-step sequence in which its steps are due: the
\* cycles that end at 3728.5, 7456.5, 11185.5 and 14914.5.
StepTimes == <<3729, 7457, 11186, 14915>>

StepsDue(n) == Cardinality({k \in 1 .. 4 : StepTimes[k] <= n})

\* The frame-IRQ flag is set only in 4-step mode with the inhibit bit clear,
\* and is set there once the fourth step of a sequence has been made; no
\* cycle of these programs reads $4015.
FrameIrq ==
    LET fc == nes.apu.frame_counter
    IN  /\ nes.apu.status.frame_irq => ~fc.mode /\ ~fc.irq_disable /\ Len(env.steps) >= 4
        /\ (~fc.mode /\ ~fc.irq_disable /\ Len(env.steps) >= 4) => nes.apu.status.frame_irq

\* The frame counter steps every CYCLES_PER_STEP + 1 CPU cycles.
StepsAsBuilt ==
    /\ Len(env.steps) = env.since \div (CYCLES_PER_STEP + 1)
    /\ \A k \in 1 .. Len(env.steps) : env.steps[k] = k * (CYCLES_PER_STEP + 1)

\* C36: in 4-step mode the frame counter has stepped at the CPU cycles
\* 3728.5, 7456.5, 11185.5 and 14914.5 of its sequence, not at equal
\* intervals, and the frame-IRQ flag is set at the last step of a sequence
\* unless the inhibit bit is set; in 5-step mode the flag is never set.
C36_FrameSteps ==
    /\ (~nes.apu.frame_counter.mode /\ env.since < StepTimes[4] + StepTimes[1]) =>
            /\ Len(env.steps) = StepsDue(env.since)
            /\ \A k \in 1 .. Len(env.steps) : env.steps[k] = StepTimes[k]
    /\ FrameIrq

\* C35: a $2007 read with v in $3F00-$3FFF returns the palette byte at once
\* and fetches the nametable byte at v & $2FFF into the read buffer, and a
\* $2007 read outside palette space returns the buffer the read before it
\* filled, also when that read was made in palette space.
C35_Cycle ==
    LET v == nes.ppu.v
    IN  DataAccess /\ drv'.read =>
            IF v >= 16128
            THEN /\ nes'.cpu_bus.data = Get(nes.ppu.palette, normalize_palette_address(v))
                 /\ nes'.cpu_bus.data = env'.want
                 /\ nes'.ppu.data_latch = Get(nes.vram, Cell(nes, v - 4096))
                 /\ env'.buf # None => nes'.ppu.data_latch = env'.buf
            ELSE env.buf # None => nes'.cpu_bus.data = env.buf

C35_PaletteRead == [][C35_Cycle]_vars

\* A read in palette space returns the palette byte at once.
PaletteDirectCycle ==
    LET v == nes.ppu.v
    IN  DataAccess /\ drv'.read /\ v >= 16128 =>
            /\ nes'.cpu_bus.data = Get(nes.ppu.palette, normalize_palette_address(v))
            /\ nes'.cpu_bus.data = env'.want

PaletteDirect == [][PaletteDirectCycle]_vars

\* A read in palette space puts v itself on the PPU bus, where no memory
\* answers: the read buffer takes the byte the PPU bus carried last, and
\* VRAM is not read.
PaletteBufferCycle ==
    DataAccess /\ drv'.read /\ nes.ppu.v >= 16128 =>
        /\ nes'.ppu.data_latch = nes.ppu_bus.data
        /\ nes'.ppu_bus.address = nes.ppu.v
        /\ ~nes'.mapper_bus.vram_enable

PaletteBufferAsBuilt == [][PaletteBufferCycle]_vars

\* The pixel set the sprite-zero-hit flag.
HitSet == env.done /\ ~env.p.before /\ nes.ppu.meta.sprite_zero_hit

\* The sprite pixel that wins belongs to sprite zero and is opaque.
ZeroWins == env.p.first = "zero_opaque"

\* Neither pixel is hidden by the mask register, the clipping of the
\* leftmost eight pixels included.
NeitherMasked ==
    /\ TestBit(env.p.mask, 3) /\ (env.p.x >= 8 \/ TestBit(env.p.mask, 1))
    /\ TestBit(env.p.mask, 4) /\ (env.p.x >= 8 \/ TestBit(env.p.mask, 2))

\* The flag is set under the conditions other than that on x, and is not
\* cleared by a pixel.
HitAsBuilt ==
    /\ HitSet => ZeroWins /\ env.p.bg # 0 /\ NeitherMasked
    /\ env.done /\ env.p.before => nes.ppu.meta.sprite_zero_hit

\* C34: a pixel sets sprite-zero hit only if the winning sprite pixel is an
\* opaque pixel of sprite 0, the background pixel is opaque, x < 255 and
\* neither pixel is masked or clipped; it is never set at x = 255, and a
\* pixel does not clear it.
C34_SpriteZeroHit ==
    /\ HitSet => ZeroWins /\ env.p.bg # 0 /\ env.p.x < 255 /\ NeitherMasked
    /\ env.done /\ env.p.before => nes.ppu.meta.sprite_zero_hit

\* The entries of the OAM tried that are in range of the line, for sprites
\* of the height the control register selects, and the k-th of them.
SpriteHeight == IF env.c.size16 THEN 16 ELSE 8

SpriteInRange(i) ==
    LET y == OamOf(env.c)[i].y
    IN  y <= env.c.line /\ env.c.line < y + SpriteHeight

InRangeCount == Cardinality({i \in 0 .. 63 : SpriteInRange(i)})

\* The entry with exactly k in-range entries before it.
NthInRange(k) ==
    CHOOSE i \in 0 .. 63 :
        SpriteInRange(i) /\ Cardinality({j \in 0 .. i - 1 : SpriteInRange(j)}) = k

SpriteCopied(j) ==
    LET sp == nes.ppu.sprites.sprites[j]
    IN  IF j >= InRangeCount THEN ~sp.present
        ELSE LET i == NthInRange(j)
                 o == OamOf(env.c)[i]
             IN  /\ sp.present
                 /\ sp.x = o.x /\ sp.tile = o.tile /\ sp.palette = o.flags % 4
                 /\ sp.sprite_zero = (i = 0)

\* For sprites 8 lines high the first eight entries in range are copied in
\* order, sprite zero marked.
SpritesCopied8 ==
    env.done /\ ~env.c.size16 => \A j \in 0 .. 7 : SpriteCopied(j)

\* The flag is set when an entry of any kind follows the eighth in range.
OverflowAsBuilt ==
    env.done /\ ~env.c.size16 =>
        nes.ppu.meta.sprite_overflow = (InRangeCount >= 8 /\ NthInRange(7) < 63)

\* C33: the evaluation copies the first up to 8 entries with
\* y <= line < y + 8 (16 for 8x16 sprites), in order, marking entry 0 as
\* sprite zero, and sets sprite overflow exactly when a ninth entry is in
\* range.
C33_SpriteEvaluation ==
    env.done =>
        /\ \A j \in 0 .. 7 : SpriteCopied(j)
        /\ nes.ppu.meta.sprite_overflow = (InRangeCount >= 9)

\* The last cycle was a read of a controller port made after a strobe.
PortReadDone ==
    /\ drv.n > 0 /\ drv.read /\ drv.addr \in {16406, 16407}
    /\ env.port = (drv.addr % 2) + 1
    /\ env.want # None

\* C23: after a strobe the k-th read (k = 0..7) of $4016 or $4017 returns
\* $40 with button k of that port's controller in bit 0, in the order A, B,
\* Select, Start, Up, Down, Left, Right; later reads return $41; reads of
\* one port do not count for the other.
C23_PortReads == PortReadDone => nes.cpu_bus.data = env.want

\* The ninth read of port 2 returned $41 before any read of port 1.
C23_Witness ==
    /\ PortReadDone
    /\ env.port = 2 /\ env.k = 8 /\ env.count[1] = 0
    /\ nes.input.controllers[2] = 90
    /\ nes.cpu_bus.data = 65

\* The eighth read of port 1 returned Right, after reads of port 2.
C23_WitnessRight ==
    /\ PortReadDone
    /\ env.port = 1 /\ env.k = 7 /\ env.count[2] = 1
    /\ nes.input.controllers[1] = 165
    /\ nes.cpu_bus.data = 65

\* The seventh read of port 1 returned Left, not pressed.
C23_WitnessLeft ==
    /\ PortReadDone
    /\ env.port = 1 /\ env.k = 6
    /\ nes.input.controllers[1] = 165
    /\ nes.cpu_bus.data = 64

\* C24: the ports hold the button sets as they were while the strobe was
\* high: once it is low, what the driver does to the buttons does not
\* change the bits that reads return.
C24_LatchedButtons == PortReadDone => nes.cpu_bus.data = env.latched

\* The operations of the documented unofficial set.
UnofficialOps ==
    {"ALR", "ANC", "ANE", "ARR", "DCP", "ISC", "LAS", "LAX", "LXA", "RLA",
     "RRA", "SAX", "SBX", "SHA", "SHX", "SHY", "SLO", "SRE", "TAS", "JAM"}

\* Every byte is decoded by an arm other than unreachable!().
DecodeTotal ==
    env.next > 0 => env.ins.op # "unreachable" /\ env.ins.mode # "unreachable"

AllBytesDecoded == env.next = 256

\* Every unofficial operation but TAS is the result of some byte.
UnofficialButTasDecoded ==
    AllBytesDecoded => (UnofficialOps \ {"TAS"}) \subseteq env.seen

\* C25: decode is total over the 256 opcode bytes, and every operation of
\* the documented unofficial set is the result of at least one byte.
C25_DecodeTotal ==
    /\ DecodeTotal
    /\ AllBytesDecoded => UnofficialOps \subseteq env.seen

\* The image is shorter than its header declares, or lacks the magic
\* number, and is rejected with the error for that.
ShortImageRejected ==
    env.loaded /\ env.rom.tag = "Err" /\ env.rom.val # "WrongINesConsoleType" =>
        /\ env.result = env.rom
        /\ env.rom.val \in {"HeaderIncomplete", "WrongMagicNumber", "TrainerIncomplete",
                            "PrgRomIncomplete", "ChrRomIncomplete"}

\* A short image, or one without the magic number, is always rejected.
ShortImageIsError ==
    env.loaded /\ (env.src.len < 16 \/ ~env.src.magic) =>
        env.result.tag = "Err"
        /\ env.result.val = (IF env.src.len < 16 THEN "HeaderIncomplete"
                             ELSE "WrongMagicNumber")

\* Mappers 0 and 2 are constructed from every image that parses.
SupportedMapperLoads ==
    env.loaded /\ env.rom.tag = "Ok" /\ env.rom.val.mapper \in {0, 2} =>
        env.result.tag = "Ok"

\* C26: loading a cartridge fails only by returning an error value: a
\* mapper outside {0, 2} gives UnsupportedMapper(n), a short image or a
\* wrong magic number gives its RomError, and no image makes it panic.
C26_LoadErrors ==
    env.loaded =>
        /\ env.result.tag # "Panic"
        /\ (env.rom.tag = "Ok" /\ env.rom.val.mapper \notin {0, 2} =>
                /\ env.result.tag = "Err"
                /\ env.result.val = <<"UnsupportedMapper", env.rom.val.mapper>>)
        /\ ShortImageRejected

ReadsWrittenRam ==
    drv.n > 0 /\ drv.read /\ drv.addr < 8192 /\ (drv.addr % 2048) \in DOMAIN drv.ram

\* Reads below $0800 return the content of the addressed RAM cell.
RamBelow0800 ==
    (ReadsWrittenRam /\ drv.addr < 2048 /\ drv.addr \in DOMAIN nes.ram)
        => nes.cpu_bus.data = nes.ram[drv.addr]

\* C14: a byte written at an address A < $2000 is returned by a later read
\* of any address A' < $2000 congruent to A modulo $0800.
C14_RamMirrored ==
    ReadsWrittenRam => nes.cpu_bus.data = drv.ram[drv.addr % 2048]

----------------------------------------------------------------------------
(* Properties of the processor. *)

\* The machine state a cycle starts from, once the environment has served
\* the bus and driven the lines.
CyclePre == [c |-> cpu, b |-> EnvServe(bus, env'), p |-> cpu_panic]

\* The same cycle had the processor been ready.
CycleReady == Cpu_cycle([CyclePre EXCEPT !.b.ready = TRUE])

C3_Cycle ==
    obs'.n = obs.n + 1 =>
        /\ bus'.halted <=> (~env'.rdy /\ CycleReady.b.read)
        /\ bus'.halted =>
             /\ cpu' = cpu
             /\ bus' = [CyclePre.b EXCEPT !.read = TRUE, !.halted = TRUE]
        /\ ~bus'.halted =>
             /\ cpu' = CycleReady.c
             /\ bus' = [CycleReady.b EXCEPT !.ready = env'.rdy]

\* C3: a cycle ends halted, with HALT asserted and the processor and the
\* bus as they stood when the cycle began, if and only if NOT_READY is
\* asserted and the cycle is a read; a write cycle with NOT_READY asserted
\* completes as if the processor were ready and does not assert HALT.
C3_HaltIffNotReadyRead == [][C3_Cycle]_vars

C3_Witness == bus.halted /\ ~env.rdy /\ obs.n > 8 /\ cpu.sp # 0

C3_WitnessWrite == ~bus.halted /\ ~env.rdy /\ ~bus.read

C6_Cycle ==
    obs'.n = obs.n + 1 =>
        /\ (cpu'.nmi_pending /\ ~cpu.nmi_pending) => (env'.nmi /\ ~cpu.last_nmi)
        /\ (~cpu'.nmi_pending /\ cpu.nmi_pending) => obs'.nmis = obs.nmis + 1
        /\ obs'.nmis = obs.nmis + 1 => cpu.nmi_pending
        /\ ~bus'.halted => cpu'.last_nmi = env'.nmi

\* C6: the pending-NMI latch is set only on a cycle that samples the NMI
\* line high after sampling it low, and cleared only when the NMI is taken
\* at a fetch boundary; so no more NMIs are taken than the line had rising
\* edges: a line held high gives one NMI sequence.
C6_NmiEdgeTriggered == [][C6_Cycle]_vars /\ [](obs.nmis <= obs.edges)

C6_Witness ==
    /\ obs.last.kind = "nmi"
    /\ obs.edges = 1 /\ obs.nmis = 1
    /\ env.nmi /\ cpu.last_nmi /\ ~cpu.nmi_pending
    /\ obs.seq.kind = "none"

\* C8: an IRQ or NMI taken at a fetch boundary discards the opcode fetch,
\* pushes the address of the not-yet-executed instruction and a status byte
\* with B = 0, and loads PC from $FFFA (NMI) or $FFFE (IRQ) in the 7th
\* cycle counted from the boundary; a BRK pushes B = 1 and uses $FFFE.
C8_InterruptSequence ==
    LET l == obs.last
    IN  /\ l.kind \in {"nmi", "irq"} =>
             /\ l.discarded
             /\ l.n = 7
             /\ Len(l.writes) = 3
             /\ l.writes[1].data = Hi(l.ret) /\ l.writes[2].data = Lo(l.ret)
             /\ ~TestBit(l.writes[3].data, 4)
             /\ l.target = IF l.kind = "nmi" THEN NmiVector ELSE IrqVector
        /\ l.kind = "brk" =>
             /\ Len(l.writes) = 3
             /\ TestBit(l.writes[3].data, 4)
             /\ l.target = IrqVector

C8_Witness == obs.last.kind = "nmi" /\ obs.last.ret = ResetVector

C8_WitnessIrq == obs.last.kind = "irq"

C8_WitnessBrk == obs.last.kind = "brk"

\* The parts of the power-on reset that do not involve the stack pointer.
PowerOnResetVector ==
    (obs.last.kind = "reset" /\ obs.last.power_on) =>
        /\ obs.last.n <= 8
        /\ obs.last.target = ResetVector
        /\ obs.last.irq_disable
        /\ obs.last.writes = <<>>

\* C9: after power-on the reset sequence ends within 8 cycles with PC
\* loaded from $FFFC/$FFFD, I = 1 and SP = $FD, and without a write cycle.
C9_PowerOnReset ==
    /\ PowerOnResetVector
    /\ (obs.last.kind = "reset" /\ obs.last.power_on) => obs.last.sp = 253

C10_WitnessJam == obs.jam_dec /\ cpu.jammed /\ obs.n > 10

\* The state a cycle ends in.
CyclePost == [c |-> cpu', b |-> bus', p |-> cpu_panic']

C11_Cycle ==
    (obs'.n = obs.n + 1 /\ ~bus'.halted /\ (bus'.sync \/ Taken(CyclePre, CyclePost))) =>
        ((Taken(CyclePre, CyclePost) /\ ~cpu.nmi_pending)
            <=> (obs.irqs /\ ~cpu'.flags.irq_disable /\ ~cpu.nmi_pending))

\* C11: at a fetch boundary an IRQ sequence begins if and only if the IRQ
\* line was high in the preceding cycle the processor completed, I = 0 and
\* no NMI is pending; every IRQ sequence started that way, so none starts
\* while I = 1 or after the line returned low.
C11_IrqLevelGated == [][C11_Cycle]_vars

\* An IRQ sequence has just begun although the line is low again in the
\* boundary cycle itself.
C11_Witness == obs.seq.kind = "irq" /\ obs.seq.n = 1 /\ ~env.irq /\ ~bus.halted

----------------------------------------------------------------------------
(* Arithmetic. *)

\* The result and flags of A + M + C on 8 bits.
AdcResult(A, M, C) ==
    LET r == (A + M + C) % 256
    IN  [a |-> r,
         carry |-> (A + M + C > 255),
         overflow |-> TestBit(And8(Xor8(Xor8(A, M), 255), Xor8(A, r)), 7),
         negative |-> TestBit(r, 7),
         zero |-> (r = 0)]

\* The result and flags the processor holds after the cycle.
AluOutcome ==
    [a |-> cpu'.a, carry |-> cpu'.flags.carry, overflow |-> cpu'.flags.overflow,
     negative |-> cpu'.flags.negative, zero |-> cpu'.flags.zero]

\* The cycle executes the immediate-mode instruction op on the operand byte
\* the environment served.
AluExecutes(op) ==
    /\ obs'.n = obs.n + 1
    /\ ~bus.sync
    /\ cpu.state.opcode = op
    /\ cpu.state.address_mode = "Immediate"

AdcCycle ==
    AluExecutes("ADC") => AluOutcome = AdcResult(cpu.a, env'.d, B2N(cpu.flags.carry))

SbcCycle ==
    AluExecutes("SBC") =>
        AluOutcome = AdcResult(cpu.a, Xor8(env'.d, 255), B2N(cpu.flags.carry))

\* SBC gives the result and the N, Z and C flags of ADC on the complement.
SbcCycleButOverflow ==
    AluExecutes("SBC") =>
        [AluOutcome EXCEPT !.overflow = FALSE]
          = [AdcResult(cpu.a, Xor8(env'.d, 255), B2N(cpu.flags.carry))
               EXCEPT !.overflow = FALSE]

AdcFlags == [][AdcCycle]_vars

SbcResultAndNZC == [][SbcCycleButOverflow]_vars

\* C12: ADC yields (A + M + C) mod 256 with C the carry out, V the signed
\* overflow, N bit 7 and Z the zero test, whatever the D flag; SBC yields
\* the result and flags of ADC applied to the operand XOR $FF.
C12_AdcSbc == [][AdcCycle /\ SbcCycle]_vars

----------------------------------------------------------------------------
(* The stack. *)

PushCycle == IsPush([c |-> cpu, b |-> bus])

PullCycle == IsPull([c |-> cpu, b |-> bus])

C13_Cycle ==
    obs'.n = obs.n + 1 =>
        /\ PushCycle =>
             /\ ~bus'.read
             /\ bus'.address = 256 + cpu.sp
             /\ cpu'.sp = (cpu.sp + 255) % 256
        /\ PullCycle =>
             /\ bus'.read
             /\ cpu'.sp = (cpu.sp + 1) % 256
             /\ bus'.address = 256 + cpu'.sp
        /\ (PushCycle \/ PullCycle) => bus'.address \in StackPage
        /\ ~bus'.read => PushCycle
        /\ env.pull.valid =>
             /\ env'.d = env.pull.data
             /\ env.pull.sp = env.pull.push_sp

\* C13: every push writes at $0100 + SP and then decrements SP modulo 256,
\* every pull increments SP modulo 256 and then reads $0100 + SP, so the
\* stack accesses stay in $0100-$01FF; a pull that matches a push is served
\* the pushed byte and leaves SP as it was before the push.
C13_StackDiscipline == [][C13_Cycle]_vars /\ [](cpu.sp \in 0 .. 255)

\* A pull matched a push made with SP = $00, which wrapped to $FF.
C13_Witness ==
    /\ env.pull.valid /\ env.pull.push_sp = 0 /\ env.pull.sp = 0
    /\ env.pull.data = 128

C13_WitnessDeep == env.pull.valid /\ env.pull.push_sp = 128 /\ Len(env.shadow) = 0

====
